---- MODULE Spec2Model ----
(***************************************************************************)
(* Model of the movie proxy server's streaming session layer               *)
(* (TorrentStreamer) and discovery coordinator (TorrentScanner).           *)
(*                                                                         *)
(* Two TorrentStreamer sources exist in the repository:                    *)
(*   src/src/torrent-streamer.js  dynamic engine import, fallback stream,  *)
(*                                no idle reaper           (Spec)          *)
(*   src/unnamed/part_001         engine always present, idle reaper on a  *)
(*                                30 minute interval       (SpecLegacy)    *)
(* streamTorrent, addTorrent, findVideoFile, setupStreamResponse and the   *)
(* stream event handlers are the same in both.                             *)
(* SpecShutdown adds destroy() to Spec, SpecRoute the 404 answer of the    *)
(* route GET /stream/:movieId; SpecScan and FairSpecScan are one           *)
(* findBestTorrent call; SpecValid, SpecRange, SpecScore, SpecQuery and    *)
(* SpecSearch apply isValidTorrent, setupStreamResponse,                   *)
(* calculateTorrentScore, buildSearchQuery and the adapters' search to     *)
(* inputs of bounded sets, SpecTorrentId does so for getTorrentId on       *)
(* magnet links spelled out character by character.  SpecRefresh is the    *)
(* content refresh of MovieProxyServer (server.js): the updateContent      *)
(* runs, their callers, and the two routes that read the caches.           *)
(***************************************************************************)
EXTENDS Integers, Sequences, FiniteSets, TLC

VARIABLES
  \* TorrentStreamer
  client, activeTorrents, streamingClients, torrents, req,
  \* how far a call of destroy() has come: "no", "draining" (waiting for the
  \* registered torrents' destroy callbacks), "closing" (waiting for the
  \* engine's destroy callback), "done"
  shutdown,
  \* the clock, and (history) the last time any response touched a stream
  now, instant, lastAccess,
  \* one findBestTorrent call of TorrentScanner
  scanPc, slots, arrival, found, result, minSeedersEnv,
  \* (history) the last call of a function checked on its own: its name,
  \* its arguments and what it returned
  call,
  \* MovieProxyServer: its caches, the updateContent runs, the clock in
  \* hours, and (history) the ids of the playlists sent and the last lookup
  \* of GET /stream/:movieId
  movieCache, playlistCache, lastUpdate, runs, hours, served, lookup

streamerVars == <<client, activeTorrents, streamingClients, torrents, req, shutdown, now, instant, lastAccess>>

scanVars == <<scanPc, slots, arrival, found, result, minSeedersEnv>>

serverVars == <<movieCache, playlistCache, lastUpdate, runs, hours, served, lookup>>

vars == <<streamerVars, scanVars, call, serverVars>>

(***************************************************************************)
(* Bounds of the model.                                                    *)
(***************************************************************************)
\* HTTP stream requests in one behaviour
MaxReq == 2
\* 30-minute periods the clock may advance through
MaxPeriods == 3
\* data chunks one response may forward
MaxChunks == 1
\* listings one adapter returns for a query
MaxResults == 2

(***************************************************************************)
(* Program constants, in milliseconds.                                     *)
(***************************************************************************)
\* part_001:12  setInterval(..., 30 * 60 * 1000)
SweepInterval == 1800000
\* part_001:216  (Date.now() - lastAccessed) / (1000 * 60 * 60)
HourMs == 3600000

None == 0

Req == 1..MaxReq
\* every request calls client.add at most once
Handles == 1..MaxReq

(***************************************************************************)
(* Magnet links.  A link either carries a 40-hex info hash after           *)
(* "xt=urn:btih:" (hex40), in upper or lower case, or it does not, and     *)
(* then its first 40 characters (head) stand in for the id.                *)
(***************************************************************************)
Magnets ==
  { [hex40 |-> TRUE,  hash |-> "ab12", head |-> "magnet:?xt=urn:btih:ab12"],
    [hex40 |-> TRUE,  hash |-> "AB12", head |-> "magnet:?xt=urn:btih:AB12"],
    [hex40 |-> TRUE,  hash |-> "cd34", head |-> "magnet:?xt=urn:btih:cd34"] }

toLowerCase(s) ==
  CASE s = "AB12" -> "ab12"
    [] s = "CD34" -> "cd34"
    [] OTHER -> s

\* getTorrentId(magnetLink)
getTorrentId(m) == IF m.hex40 THEN toLowerCase(m.hash) ELSE m.head

Keys == { getTorrentId(m) : m \in Magnets }

(***************************************************************************)
(* Files of a torrent, as the engine reports them once it is ready.        *)
(***************************************************************************)
videoExtensions == {".mp4", ".avi", ".mkv", ".mov", ".wmv", ".flv", ".webm", ".m4v"}

File(ext, len) == [ext |-> ext, length |-> len, sel |-> "default"]

\* indices of the files whose extension is allow-listed (videoFiles of findVideoFile)
videoIdx(files) == { i \in 1..Len(files) : files[i].ext \in videoExtensions }

\* findVideoFile: index of the largest video file, the first one on equal length
\* (reduce keeps `largest` unless current.length > largest.length); None if none
findVideoFileLastOfEqual(files) ==
  IF videoIdx(files) = {} THEN None
  ELSE CHOOSE i \in videoIdx(files) :
         \A j \in videoIdx(files) :
            \/ files[j].length < files[i].length
            \/ (files[j].length = files[i].length /\ i >= j)

findVideoFileAnyExtension(files) ==
  IF files = << >> THEN None
  ELSE CHOOSE i \in 1..Len(files) :
         \A j \in 1..Len(files) :
            \/ files[j].length < files[i].length
            \/ (files[j].length = files[i].length /\ i <= j)

findVideoFile(files) ==
  IF videoIdx(files) = {} THEN None
  ELSE CHOOSE i \in videoIdx(files) :
         \A j \in videoIdx(files) :
            \/ files[j].length < files[i].length
            \/ (files[j].length = files[i].length /\ i <= j)

\* the ready handler: select the video file, deselect every other file
selectFiles(files) ==
  LET v == findVideoFile(files) IN
  IF v = None THEN files
  ELSE [i \in 1..Len(files) |->
          [files[i] EXCEPT !.sel = IF i = v THEN "selected" ELSE "deselected"]]

(***************************************************************************)
(* Engine handles (torrent objects returned by client.add).                *)
(*   promise  the promise addTorrent returned: none (handle not handed     *)
(*            out yet), pending, resolved, rejected                        *)
(*   timer    the 30 s startup timer: none, armed, fired                   *)
(*   created  torrent.created as the engine reports it: {} when absent,    *)
(*            {t} when it is the date t                                    *)
(*   owner    the request whose addTorrent call created the handle         *)
(*   reaped   (history) destroyed by cleanupInactiveTorrents               *)
(*   lastAccess (variable, history) is the last time a response started,   *)
(*            forwarded data, ended, failed or was closed                  *)
(***************************************************************************)
NoTorrent ==
  [key |-> "", ready |-> FALSE, errored |-> FALSE, destroyed |-> FALSE,
   promise |-> "none", timer |-> "none", created |-> {}, files |-> << >>,
   owner |-> None, reaped |-> FALSE]

\* What the engine may report about a torrent when it becomes ready: its files,
\* and torrent.created (absent, or a creation date not after the server's start)
Metadata ==
  { [files |-> << File(".mkv", 4), File(".iso", 9) >>, created |-> {}],
    [files |-> << File(".mp4", 2), File(".mkv", 4), File(".avi", 4) >>, created |-> {0}],
    [files |-> << File(".txt", 1) >>, created |-> {0}] }

NoStream == << "", -1 >>

(***************************************************************************)
(* HTTP stream requests.  pc is the position of the request:               *)
(*   idle       not received yet (requests arrive in the order of their    *)
(*              numbers)                                                   *)
(*   awaitAdd   streamTorrent is suspended in `await this.addTorrent`      *)
(*   streaming  the read stream is piped into the response                 *)
(*   ended      the read stream ended or failed before any byte was sent   *)
(*              and the response was ended; its close event is to come     *)
(*   errored    the read stream failed after bytes were sent: the          *)
(*              response stays open until the client goes away             *)
(*   closed     the response's close event has been handled                *)
(*   failed     a 500 was answered and no stream handler is registered     *)
(*   fallback   the fallback JSON was answered                             *)
(*   notfound   the route answered 404 without calling streamTorrent       *)
(* file is the index of the file whose read stream feeds the response.     *)
(***************************************************************************)
NoReq ==
  [pc |-> "idle", h |-> None, streamId |-> NoStream,
   status |-> 0, sent |-> 0, added |-> FALSE, file |-> None]

\* a request whose handler has answered: its locals are dead
Finished(pc, status) == [NoReq EXCEPT !.pc = pc, !.status = status]

allocated == { h \in Handles : torrents[h].promise # "none" }

\* a lookup that never finds the entry
registryGetMiss(key) == None

\* this.activeTorrents.get(torrentId)
registryGet(key) == activeTorrents[key]

\* Map.delete(streamId)
ticketDelete(sc, id) == [x \in (DOMAIN sc) \ {id} |-> sc[x]]

\* Map.set(streamId, ticket)
ticketSet(sc, id, t) == [x \in (DOMAIN sc) \cup {id} |-> IF x = id THEN t ELSE sc[x]]

\* streamFileRange: `${torrentId}_${Date.now()}`
newStreamId(key) == << key, instant >>

(***************************************************************************)
(* The part of streamTorrent after the torrent object is known             *)
(* (findVideoFile, setupStreamResponse, streamFileRange), for request r    *)
(* on handle h whose files are `files`.  `opens` is whether                *)
(* videoFile.createReadStream returns a stream or throws.                  *)
(* The results: the request's new record and the new ticket map.           *)
(***************************************************************************)
serveReq(rq, key, h, files, opens) ==
  IF findVideoFile(files) = None
    THEN Finished("failed", 500)
    ELSE IF opens
      THEN [rq EXCEPT !.pc = "streaming", !.h = h, !.status = 200,
                      !.streamId = newStreamId(key),
                      !.file = findVideoFile(files)]
      ELSE Finished("failed", 500)

serveTickets(key, files) ==
  IF findVideoFile(files) = None
    THEN streamingClients
    ELSE ticketSet(streamingClients, newStreamId(key),
                   [torrentId |-> key, startTime |-> instant, bytesStreamed |-> 0])

(***************************************************************************)
(* initWebTorrent (torrent-streamer.js): the dynamic import settles, with  *)
(* an engine or without one.                                               *)
(***************************************************************************)
InitWebTorrent ==
  /\ client = "uninit"
  /\ \E ok \in BOOLEAN : client' = IF ok THEN "ok" ELSE "null"
  /\ UNCHANGED <<activeTorrents, streamingClients, torrents, req, now, instant, lastAccess>>
  /\ UNCHANGED <<scanVars, call, shutdown, serverVars>>

\* `!this.client` read as "the import failed": an unset field counts as an engine
noClientOnlyAfterFailure == client = "null"

\* `!this.client`: the field is unset (undefined) or null
noClient == client \notin {"ok", "destroyed"}

(***************************************************************************)
(* streamTorrent(torrentInfo, res) up to its first suspension.             *)
(***************************************************************************)
StreamTorrent(r, m, opens) ==
  /\ req[r].pc = "idle"
  /\ \A q \in Req : q < r => req[q].pc # "idle"
  /\ LET key == getTorrentId(m)
         rq  == req[r]
         t   == registryGet(key)
     IN
     IF noClient
       THEN \* fallbackStream
            /\ req' = [req EXCEPT ![r] = Finished("fallback", 200)]
            /\ UNCHANGED <<activeTorrents, streamingClients, torrents, lastAccess>>
       ELSE IF t # None
         THEN \* the torrent is registered: no await, serve at once
              /\ req' = [req EXCEPT ![r] = serveReq(rq, key, t, torrents[t].files, opens)]
              /\ streamingClients' = serveTickets(key, torrents[t].files)
              /\ lastAccess' = IF findVideoFile(torrents[t].files) # None /\ opens
                                 THEN now ELSE lastAccess
              /\ UNCHANGED <<activeTorrents, torrents>>
         ELSE IF client = "destroyed"
           THEN \* addTorrent: client.add throws on a destroyed engine
                /\ req' = [req EXCEPT ![r] = Finished("failed", 500)]
                /\ UNCHANGED <<activeTorrents, streamingClients, torrents, lastAccess>>
         ELSE \* addTorrent: client.add, arm the startup timer, suspend
              /\ Handles \ allocated # {}
              /\ LET h == CHOOSE x \in Handles \ allocated :
                            \A y \in Handles \ allocated : x <= y
                 IN /\ torrents' = [torrents EXCEPT ![h] =
                                      [NoTorrent EXCEPT !.key = key, !.promise = "pending",
                                                        !.timer = "armed", !.owner = r]]
                    /\ req' = [req EXCEPT ![r] =
                                 [rq EXCEPT !.pc = "awaitAdd", !.h = h, !.added = TRUE]]
              /\ UNCHANGED <<activeTorrents, streamingClients, lastAccess>>
  /\ UNCHANGED <<client, now, instant>>
  /\ UNCHANGED <<scanVars, call, shutdown, serverVars>>

(***************************************************************************)
(* GET /stream/:movieId (server.js) for a movie id that movieCache does    *)
(* not hold, or whose entry has no torrent: 404 and a JSON body, and       *)
(* streamTorrent is not called.  With an entry that has a torrent the      *)
(* handler is StreamTorrent on that torrent's magnet link.                 *)
(***************************************************************************)
StreamNotFoundAnswers500(r) ==
  /\ req[r].pc = "idle"
  /\ \A q \in Req : q < r => req[q].pc # "idle"
  /\ req' = [req EXCEPT ![r] = Finished("notfound", 500)]
  /\ UNCHANGED <<client, activeTorrents, streamingClients, torrents, now, instant, lastAccess>>
  /\ UNCHANGED <<scanVars, call, shutdown, serverVars>>

StreamNotFound(r) ==
  /\ req[r].pc = "idle"
  /\ \A q \in Req : q < r => req[q].pc # "idle"
  /\ req' = [req EXCEPT ![r] = Finished("notfound", 404)]
  /\ UNCHANGED <<client, activeTorrents, streamingClients, torrents, now, instant, lastAccess>>
  /\ UNCHANGED <<scanVars, call, shutdown, serverVars>>

(***************************************************************************)
(* The engine's `ready` event on handle h: the ready handler of addTorrent *)
(* selects the files and resolves the promise; when that settles the       *)
(* promise, the suspended streamTorrent of the owner resumes in the same   *)
(* turn of the event loop: it registers the torrent and serves.            *)
(***************************************************************************)
TorrentReady(h, meta, opens) ==
  /\ h \in allocated
  /\ ~torrents[h].ready /\ ~torrents[h].errored /\ ~torrents[h].destroyed
  /\ LET r  == torrents[h].owner
         fs == selectFiles(meta.files)
         t1 == [torrents[h] EXCEPT !.ready = TRUE, !.files = fs, !.created = meta.created]
     IN
     IF torrents[h].promise = "pending"
       THEN /\ activeTorrents' = [activeTorrents EXCEPT ![torrents[h].key] = h]
            /\ req' = [req EXCEPT ![r] = serveReq(req[r], torrents[h].key, h, fs, opens)]
            /\ streamingClients' = serveTickets(torrents[h].key, fs)
            /\ torrents' = [torrents EXCEPT ![h] = [t1 EXCEPT !.promise = "resolved"]]
            /\ lastAccess' = IF findVideoFile(fs) # None /\ opens THEN now ELSE lastAccess
       ELSE /\ torrents' = [torrents EXCEPT ![h] = t1]
            /\ UNCHANGED <<activeTorrents, req, streamingClients, lastAccess>>
  /\ UNCHANGED <<client, now, instant>>
  /\ UNCHANGED <<scanVars, call, shutdown, serverVars>>

(***************************************************************************)
(* The engine's `error` event on handle h: reject(err).  When that settles *)
(* the promise, the owner's streamTorrent resumes in its catch: 500.       *)
(***************************************************************************)
TorrentError(h) ==
  /\ h \in allocated
  /\ ~torrents[h].errored /\ ~torrents[h].destroyed
  /\ IF torrents[h].promise = "pending"
       THEN /\ torrents' = [torrents EXCEPT ![h].errored = TRUE, ![h].promise = "rejected"]
            /\ req' = [req EXCEPT ![torrents[h].owner] = Finished("failed", 500)]
       ELSE /\ torrents' = [torrents EXCEPT ![h].errored = TRUE]
            /\ UNCHANGED req
  /\ UNCHANGED <<client, activeTorrents, streamingClients, now, instant, lastAccess>>
  /\ UNCHANGED <<scanVars, call, shutdown, serverVars>>

\* a timer that does not look at torrent.ready
StartupTimeoutIgnoresReady(h) ==
  /\ h \in allocated
  /\ torrents[h].timer = "armed"
  /\ IF torrents[h].promise = "pending"
       THEN /\ torrents' = [torrents EXCEPT ![h].timer = "fired",
                                            ![h].destroyed = TRUE,
                                            ![h].promise = "rejected"]
            /\ req' = [req EXCEPT ![torrents[h].owner] = Finished("failed", 500)]
       ELSE /\ torrents' = [torrents EXCEPT ![h].timer = "fired",
                                            ![h].destroyed = TRUE]
            /\ UNCHANGED req
  /\ UNCHANGED <<client, activeTorrents, streamingClients, now, instant, lastAccess>>
  /\ UNCHANGED <<scanVars, call, shutdown, serverVars>>

\* a timer that rejects and leaves the torrent in the engine
StartupTimeoutKeepsTorrent(h) ==
  /\ h \in allocated
  /\ torrents[h].timer = "armed"
  /\ IF torrents[h].promise = "pending"
       THEN /\ torrents' = [torrents EXCEPT ![h].timer = "fired", ![h].promise = "rejected"]
            /\ req' = [req EXCEPT ![torrents[h].owner] = Finished("failed", 500)]
       ELSE /\ torrents' = [torrents EXCEPT ![h].timer = "fired"]
            /\ UNCHANGED req
  /\ UNCHANGED <<client, activeTorrents, streamingClients, now, instant, lastAccess>>
  /\ UNCHANGED <<scanVars, call, shutdown, serverVars>>

(***************************************************************************)
(* The 30 s startup timer of addTorrent fires: if the torrent is not       *)
(* ready it is destroyed and the promise rejected.                         *)
(***************************************************************************)
StartupTimeout(h) ==
  /\ h \in allocated
  /\ torrents[h].timer = "armed"
  /\ IF ~torrents[h].ready
       THEN IF torrents[h].promise = "pending"
              THEN /\ torrents' = [torrents EXCEPT ![h].timer = "fired",
                                                   ![h].destroyed = TRUE,
                                                   ![h].promise = "rejected"]
                   /\ req' = [req EXCEPT ![torrents[h].owner] = Finished("failed", 500)]
              ELSE /\ torrents' = [torrents EXCEPT ![h].timer = "fired",
                                                   ![h].destroyed = TRUE]
                   /\ UNCHANGED req
       ELSE /\ torrents' = [torrents EXCEPT ![h].timer = "fired"]
            /\ UNCHANGED req
  /\ UNCHANGED <<client, activeTorrents, streamingClients, now, instant, lastAccess>>
  /\ UNCHANGED <<scanVars, call, shutdown, serverVars>>

(***************************************************************************)
(* Handlers streamFileRange registers on the read stream and the response. *)
(***************************************************************************)
\* stream.on('data'): count the chunk into the ticket found under streamId
StreamData(r) ==
  /\ req[r].pc = "streaming"
  /\ req[r].sent < MaxChunks
  /\ req' = [req EXCEPT ![r].sent = @ + 1]
  /\ streamingClients' =
       IF req[r].streamId \in DOMAIN streamingClients
         THEN [streamingClients EXCEPT ![req[r].streamId].bytesStreamed = @ + 1]
         ELSE streamingClients
  /\ lastAccess' = now
  /\ UNCHANGED <<client, activeTorrents, torrents, now, instant>>
  /\ UNCHANGED <<scanVars, call, shutdown, serverVars>>

\* stream.on('end'): delete the ticket; pipe ends the response
StreamEnd(r) ==
  /\ req[r].pc = "streaming"
  /\ streamingClients' = ticketDelete(streamingClients, req[r].streamId)
  /\ req' = [req EXCEPT ![r] = [Finished("ended", req[r].status) EXCEPT
                                   !.streamId = req[r].streamId]]
  /\ lastAccess' = now
  /\ UNCHANGED <<client, activeTorrents, torrents, now, instant>>
  /\ UNCHANGED <<scanVars, call, shutdown, serverVars>>

\* stream.on('error'): delete the ticket; 500 if no header has been sent
StreamError(r) ==
  /\ req[r].pc = "streaming"
  /\ streamingClients' = ticketDelete(streamingClients, req[r].streamId)
  /\ req' = [req EXCEPT ![r] =
                [Finished(IF req[r].sent = 0 THEN "ended" ELSE "errored",
                          IF req[r].sent = 0 THEN 500 ELSE req[r].status)
                   EXCEPT !.streamId = req[r].streamId]]
  /\ lastAccess' = now
  /\ UNCHANGED <<client, activeTorrents, torrents, now, instant>>
  /\ UNCHANGED <<scanVars, call, shutdown, serverVars>>

\* res.on('close'): delete the ticket, destroy the read stream
ResClose(r) ==
  /\ req[r].pc \in {"streaming", "ended", "errored"}
  /\ streamingClients' = ticketDelete(streamingClients, req[r].streamId)
  /\ req' = [req EXCEPT ![r] = Finished("closed", req[r].status)]
  /\ lastAccess' = now
  /\ UNCHANGED <<client, activeTorrents, torrents, now, instant>>
  /\ UNCHANGED <<scanVars, call, shutdown, serverVars>>

(***************************************************************************)
(* Date.now().  The code observes the clock in two ways: streamFileRange   *)
(* puts a reading into the stream id, where only the equality of two       *)
(* readings matters, and cleanupInactiveTorrents, run by the interval      *)
(* timer every 30 minutes, subtracts a date from it.  A reading is         *)
(* modelled by (now, instant): now is the time of the last run of the      *)
(* interval timer, in ms since the start, and instant numbers the readings *)
(* apart: it moves on when the clock moves away from a reading that some   *)
(* stream id carries.                                                      *)
(***************************************************************************)
stamped == \/ \E id \in DOMAIN streamingClients : id[2] = instant
           \/ \E r \in Req : req[r].streamId[2] = instant

\* the clock moves on by less than the time to the next run of the interval timer
Tick ==
  /\ stamped
  /\ instant' = instant + 1
  /\ UNCHANGED <<client, activeTorrents, streamingClients, torrents, req, now, lastAccess>>
  /\ UNCHANGED <<scanVars, call, shutdown, serverVars>>

(***************************************************************************)
(* cleanupInactiveTorrents (part_001), run by the interval timer 30        *)
(* minutes after the last run (after the construction, for the first run). *)
(***************************************************************************)
\* activeStreams: the torrentId of every ticket
activeStreams == { streamingClients[id].torrentId : id \in DOMAIN streamingClients }

\* torrent.lastAccessed || torrent.created: no code assigns lastAccessed
lastAccessed(t) == t.created

\* hoursSinceAccess > 1 at time `at`; with lastAccessed undefined the
\* difference is NaN and the comparison is false
inactive(t, at) == \E a \in lastAccessed(t) : at - a > HourMs

toReap(at) == { k \in Keys : /\ activeTorrents[k] # None
                             /\ k \notin activeStreams
                             /\ inactive(torrents[activeTorrents[k]], at) }

cleanupInactiveTorrents ==
  /\ now + SweepInterval <= MaxPeriods * SweepInterval
  /\ now' = now + SweepInterval
  /\ instant' = IF stamped THEN instant + 1 ELSE instant
  /\ torrents' = [h \in Handles |->
                    IF \E k \in toReap(now') : activeTorrents[k] = h
                      THEN [torrents[h] EXCEPT !.destroyed = TRUE, !.reaped = TRUE]
                      ELSE torrents[h]]
  /\ activeTorrents' = [k \in Keys |-> IF k \in toReap(now') THEN None ELSE activeTorrents[k]]
  /\ UNCHANGED <<client, streamingClients, req, lastAccess>>
  /\ UNCHANGED <<scanVars, call, shutdown, serverVars>>

(***************************************************************************)
(* destroy() (graceful shutdown), in the three turns of the event loop it  *)
(* takes.  No code of the repository calls it; it is modelled as callable  *)
(* once, at any time.                                                      *)
(***************************************************************************)
\* torrent.destroy() on every handle of hs
destroyAll(hs) ==
  [h \in Handles |-> IF h \in hs THEN [torrents[h] EXCEPT !.destroyed = TRUE]
                                  ELSE torrents[h]]

registered == { activeTorrents[k] : k \in Keys } \ {None}

\* client.destroy(resolve): the engine destroys every torrent it holds
closeClient ==
  /\ client' = "destroyed"
  /\ shutdown' = "closing"

\* destroy() up to `await Promise.all(destroyPromises)`; with no torrent
\* registered the await resumes in the same turn; without an engine the
\* function is over
Destroy ==
  /\ shutdown = "no"
  /\ streamingClients' = << >>
  /\ IF client # "ok"
       THEN /\ shutdown' = "done"
            /\ UNCHANGED <<client, torrents>>
       ELSE IF registered = {}
         THEN /\ closeClient
              /\ torrents' = destroyAll(allocated)
         ELSE /\ shutdown' = "draining"
              /\ torrents' = destroyAll(registered)
              /\ UNCHANGED client
  /\ UNCHANGED <<activeTorrents, req, now, instant, lastAccess>>
  /\ UNCHANGED <<scanVars, call, serverVars>>

\* every torrent.destroy callback has run: destroy() resumes, clears the
\* registry and destroys the engine
DestroyDrained ==
  /\ shutdown = "draining"
  /\ activeTorrents' = [k \in Keys |-> None]
  /\ closeClient
  /\ torrents' = destroyAll(allocated)
  /\ UNCHANGED <<streamingClients, req, now, instant, lastAccess>>
  /\ UNCHANGED <<scanVars, call, serverVars>>

\* the engine's destroy callback: the promise destroy() returned resolves
DestroyDone ==
  /\ shutdown = "closing"
  /\ shutdown' = "done"
  /\ UNCHANGED <<client, activeTorrents, streamingClients, torrents, req,
                 now, instant, lastAccess>>
  /\ UNCHANGED <<scanVars, call, serverVars>>

(***************************************************************************)
(* TorrentScanner (torrent-scanner.js).                                    *)
(*                                                                         *)
(* A listing, as an adapter pushes it:                                     *)
(*   title      the title; marks is the set of markers its lower-cased     *)
(*              form contains (title.includes(marker))                     *)
(*   magnetLink the magnet link                                            *)
(*   seeders, leechers                                                     *)
(*   size       in blocks of 512 bytes, 0 when the size text has no match  *)
(*   verified   the uploader carries the VIP badge                         *)
(*   uploadDate "none" (no adapter sets it), "recent" (less than 365 days  *)
(*              ago) or "old"                                              *)
(*   source     the adapter's name                                         *)
(***************************************************************************)
\* this.sources, by name
sources == << "ThePirateBay", "LimeTorrents", "TorrentGalaxy" >>

Adapters == 1..Len(sources)

\* 1024 * 1024 * 1024 bytes, in blocks of 512 bytes
GB == 2097152

Min(a, b) == IF a <= b THEN a ELSE b

MaxUnclamped(a, b) == a

Max(a, b) == IF a >= b THEN a ELSE b

\* what a result page may list; every row passed the adapter's own filter
\* (title && magnetLink && seeders > 0)
Listings ==
  { [title |-> "Movie.2019.1080p.YTS", marks |-> {"1080p", "yts"},
     magnetLink |-> "magnet:?xt=urn:btih:ab12", seeders |-> 50, leechers |-> 4,
     size |-> 3 * GB, verified |-> FALSE, uploadDate |-> "none"],
    [title |-> "Movie.2019.720p", marks |-> {"720p"},
     magnetLink |-> "magnet:?xt=urn:btih:cd34", seeders |-> 5, leechers |-> 3,
     size |-> (7 * GB) \div 10, verified |-> FALSE, uploadDate |-> "none"],
    [title |-> "Movie.2019.2160p.x265.Atmos.5.1.RARBG",
     marks |-> {"2160p", "x265", "atmos", "5.1", "rarbg"},
     magnetLink |-> "magnet:?xt=urn:btih:ef56", seeders |-> 60, leechers |-> 0,
     size |-> 0, verified |-> TRUE, uploadDate |-> "recent"] }

\* the result pages of at most MaxResults rows
Pages == UNION { [1..n -> Listings] : n \in 0..MaxResults }

\* source: this.name
fromSource(page, i) ==
  [k \in 1..Len(page) |->
     [title |-> page[k].title, marks |-> page[k].marks,
      magnetLink |-> page[k].magnetLink, seeders |-> page[k].seeders,
      leechers |-> page[k].leechers, size |-> page[k].size,
      verified |-> page[k].verified, uploadDate |-> page[k].uploadDate,
      source |-> sources[i]]]

\* process.env.MIN_SEEDERS_REQUIRED through parseInt: {} is NaN (unset or
\* not a number), {n} the integer n
EnvValues == { {}, {8} }

\* parseInt(process.env.MIN_SEEDERS_REQUIRED) || 5
minSeeders(env) ==
  IF \E n \in env : n # 0 THEN CHOOSE n \in env : TRUE ELSE 5

isValidTorrentAny(torrent, env) == TRUE

isValidTorrent(torrent, env) ==
  /\ torrent.seeders >= minSeeders(env)
  /\ torrent.magnetLink # ""
  /\ torrent.title # ""
  /\ torrent.size > 0

includes(torrent, marker) == marker \in torrent.marks

goodGroups == {"yify", "rarbg", "fgt", "sparks", "cmrg", "yts", "eztv"}

(***************************************************************************)
(* calculateTorrentScore.  The health term seeders / (leechers + 1) * 10   *)
(* is a fraction, so a score is kept exactly as num / den with             *)
(* den = leechers + 1.                                                     *)
(***************************************************************************)
\* Math.min(torrent.seeders * 2, 80)
seedersTerm(torrent) == Min(torrent.seeders * 2, 80)

\* Math.min(healthRatio * 10, 20), times leechers + 1
healthTerm(torrent) == Min(torrent.seeders * 10, 20 * (torrent.leechers + 1))

qualityTerm(torrent) ==
  IF includes(torrent, "2160p") \/ includes(torrent, "4k") THEN 25
  ELSE IF includes(torrent, "1080p") THEN 20
  ELSE IF includes(torrent, "720p") THEN 15
  ELSE IF includes(torrent, "480p") THEN 5
  ELSE 0

sizeTermFlat(torrent) == 15

sizeTermExtremesFirst(torrent) ==
  IF 2 * torrent.size < GB THEN -20
  ELSE IF torrent.size > 50 * GB THEN -15
  ELSE IF torrent.size >= 10 * GB /\ torrent.size <= 20 * GB THEN 10
  ELSE IF torrent.size >= GB /\ torrent.size <= 10 * GB THEN 15
  ELSE 0

\* sizeGB is torrent.size / GB
sizeTerm(torrent) ==
  IF torrent.size >= GB /\ torrent.size <= 10 * GB THEN 15
  ELSE IF torrent.size >= 10 * GB /\ torrent.size <= 20 * GB THEN 10
  ELSE IF 2 * torrent.size < GB THEN -20
  ELSE IF torrent.size > 50 * GB THEN -15
  ELSE 0

groupTerm(torrent) == IF \E g \in goodGroups : includes(torrent, g) THEN 10 ELSE 0

\* two separate if statements
codecTerm(torrent) ==
  (IF includes(torrent, "x264") \/ includes(torrent, "h264") THEN 5 ELSE 0)
  + (IF includes(torrent, "x265") \/ includes(torrent, "h265") THEN 8 ELSE 0)

\* two separate if statements
audioTerm(torrent) ==
  (IF includes(torrent, "5.1") \/ includes(torrent, "7.1") THEN 5 ELSE 0)
  + (IF includes(torrent, "atmos") THEN 8 ELSE 0)

verifiedTerm(torrent) == IF torrent.verified THEN 10 ELSE 0

recencyTerm(torrent) == IF torrent.uploadDate = "recent" THEN 5 ELSE 0

calculateTorrentScore(torrent) ==
  LET den   == torrent.leechers + 1
      whole == seedersTerm(torrent) + qualityTerm(torrent) + sizeTerm(torrent)
               + groupTerm(torrent) + codecTerm(torrent) + audioTerm(torrent)
               + verifiedTerm(torrent) + recencyTerm(torrent)
  IN [num |-> Max(whole * den + healthTerm(torrent), 0), den |-> den]

\* { ...torrent, score }
scored(torrent) == [torrent |-> torrent, score |-> calculateTorrentScore(torrent)]

\* the comparator (a, b) => b.score - a.score leaves a before b
compareScoreStrict(a, b) == a.score.num * b.score.den > b.score.num * a.score.den

compareScore(a, b) == a.score.num * b.score.den >= b.score.num * a.score.den

\* Array.prototype.sort with that comparator: stable (Node 11 and later), so
\* seq[j] ends before seq[k] when it must precede it by score, or may and
\* stood before it
sortByScore(seq) ==
  LET before(j, k) == \/ j < k /\ compareScore(seq[j], seq[k])
                      \/ j > k /\ ~compareScore(seq[k], seq[j])
      rank(k) == Cardinality({ j \in 1..Len(seq) : before(j, k) }) + 1
  IN [p \in 1..Len(seq) |-> seq[CHOOSE k \in 1..Len(seq) : rank(k) = p]]

\* Array.prototype.flat
RECURSIVE flat(_)
flat(lists) ==
  IF lists = << >> THEN << >> ELSE Head(lists) \o flat(Tail(lists))

\* the value findBestTorrent returns for null, and the exception it would
\* throw if Promise.all rejected
NullTorrent == [null |-> TRUE]

Thrown == [thrown |-> TRUE]

bestTorrentUnfiltered(all, env) ==
  IF Len(all) = 0 THEN NullTorrent
  ELSE sortByScore([k \in 1..Len(all) |-> scored(all[k])])[1]

\* findBestTorrent from `const torrents = allResults.flat()` on; all is torrents
bestTorrent(all, env) ==
  LET validTorrents  == SelectSeq(all, LAMBDA t : isValidTorrent(t, env))
      scoredTorrents == [k \in 1..Len(validTorrents) |-> scored(validTorrents[k])]
  IN IF Len(all) = 0 THEN NullTorrent
     ELSE IF Len(validTorrents) = 0 THEN NullTorrent
     ELSE sortByScore(scoredTorrents)[1]

(***************************************************************************)
(* One findBestTorrent call.  slots[i] is the promise built for source i:  *)
(* Promise.race([source.search(q), timer]).catch(err => [])                *)
(*   state  "pending", "fulfilled" or "rejected"                           *)
(*   by     what settled it: "search" (the adapter returned its rows),     *)
(*          "failure" (the adapter's request or parse threw; its own catch *)
(*          returns []), "timeout" (the 10 s timer won the race)           *)
(*   value  the array it is fulfilled with                                 *)
(* arrival (history) lists the sources in the order they settled.          *)
(* The later event of a race that is already settled changes nothing.      *)
(***************************************************************************)
\* no function has been called yet
NoCall == [fn |-> "none"]

PendingSlot == [state |-> "pending", by |-> "none", value |-> << >>]

uncaught(by) == [state |-> "rejected", by |-> by, value |-> << >>]

\* .catch(err => { ...; return []; })
caught(by) == [state |-> "fulfilled", by |-> by, value |-> << >>]

raceNoTimer(slot) == slot

\* setTimeout(() => reject(new Error('Timeout')), this.timeout) wins the race
raceTimeout(slot) == caught("timeout")

promiseAllByArrival(sl, arr) == [k \in 1..Len(arr) |-> sl[arr[k]].value]

\* Promise.all(searchPromises): the values in the order of the promises,
\* whatever the order arr they settled in
promiseAll(sl, arr) == [i \in Adapters |-> sl[i].value]

\* findBestTorrent up to `await Promise.all(searchPromises)`
StartSearch ==
  /\ scanPc \in {"idle", "done"}
  /\ scanPc' = "searching"
  /\ slots' = [i \in Adapters |-> PendingSlot]
  /\ arrival' = << >>
  /\ found' = << >>
  /\ result' = NullTorrent
  /\ UNCHANGED minSeedersEnv
  /\ UNCHANGED <<streamerVars, call, serverVars>>

\* source i settles as slot; when it is the last one Promise.all settles and
\* findBestTorrent resumes in the same turn of the event loop
settle(i, slot) ==
  LET sl  == [slots EXCEPT ![i] = slot]
      arr == IF slot.state = "pending" THEN arrival ELSE Append(arrival, i)
  IN /\ slots' = sl
     /\ arrival' = arr
     /\ IF \E j \in Adapters : sl[j].state = "pending"
          THEN UNCHANGED <<scanPc, found, result>>
          ELSE /\ scanPc' = "done"
               /\ IF \E j \in Adapters : sl[j].state = "rejected"
                    THEN /\ found' = << >>
                         /\ result' = Thrown
                    ELSE /\ found' = flat(promiseAll(sl, arr))
                         /\ result' = bestTorrent(found', minSeedersEnv)
     /\ UNCHANGED minSeedersEnv
     /\ UNCHANGED <<streamerVars, call, serverVars>>

\* source.search(query) returns the rows of the page it parsed
SearchReturns(i, page) ==
  /\ scanPc = "searching"
  /\ slots[i].state = "pending"
  /\ settle(i, [state |-> "fulfilled", by |-> "search", value |-> fromSource(page, i)])

\* the request or the parse throws inside source.search: catch, return []
SearchFails(i) ==
  /\ scanPc = "searching"
  /\ slots[i].state = "pending"
  /\ settle(i, [state |-> "fulfilled", by |-> "failure", value |-> << >>])

\* the timer of source i fires before source.search settled
SearchTimeout(i) ==
  /\ scanPc = "searching"
  /\ slots[i].state = "pending"
  /\ settle(i, raceTimeout(slots[i]))

(***************************************************************************)
(* MovieProxyServer (server.js): updateContent and what calls it.          *)
(*   movieCache     the entries by movie id; an entry is the catalogue     *)
(*                  item with its torrent                                  *)
(*   playlistCache  {} (null) or {ids}: the ids of the items the playlist  *)
(*                  text was built from, in order                          *)
(*   lastUpdate     {} (null) or {t}: the clock when a run wrote it        *)
(*   runs[u]        one call of updateContent:                             *)
(*     pc       idle (not called yet), fetch (awaiting the catalogue       *)
(*              pages), search (awaiting findBestTorrent for item i),      *)
(*              delay (awaiting the 1 s pause after item i), done          *)
(*     by       what called it: startup, cron, refresh, playlist           *)
(*     content  allContent, by id; with: contentWithTorrents, by id        *)
(*   hours          hours since the start, in steps of the cron period     *)
(***************************************************************************)
\* calls of updateContent in one behaviour
MaxRuns == 2
\* items the catalogue pages list together
MaxItems == 2
\* times the scheduled task fires
MaxCron == 2

\* cron.schedule('0 */6 * * *', ...)
CronHours == 6
\* parseInt(process.env.CACHE_DURATION_HOURS) || 24
CacheHours == 24

Runs == 1..MaxRuns

\* movie ids of the catalogue
CatalogIds == {1, 2}

\* what the two catalogue pages list together: [...movies, ...tvShows]
Catalogues == UNION { [1..n -> CatalogIds] : n \in 0..MaxItems }

\* a torrent findBestTorrent found
FoundTorrent == [null |-> FALSE]

NoRun == [pc |-> "idle", by |-> "none", content |-> << >>, i |-> 0, with |-> << >>]

NoLookup == [id |-> 0, status |-> 0, listed |-> FALSE]

cacheSetNothing(cache, id, item) == cache

\* this.movieCache.set(item.id.toString(), item)
cacheSet(cache, id, item) ==
  [x \in (DOMAIN cache) \cup {id} |-> IF x = id THEN item ELSE cache[x]]

\* the runs of updateContent that have begun and not returned
running == { u \in Runs : runs[u].pc \notin {"idle", "done"} }

\* generatePlaylist: the cached playlist is recent
recent ==
  /\ playlistCache # {}
  /\ lastUpdate # {}
  /\ \A t \in lastUpdate : hours - t < CacheHours

\* the next call of updateContent takes the first unused run
nextRun == CHOOSE u \in Runs : runs[u].pc = "idle" /\ \A v \in Runs : v < u => runs[v].pc # "idle"

\* updateContent up to `await Promise.all([...])`
beginRun(by) ==
  /\ \E u \in Runs : runs[u].pc = "idle"
  /\ runs' = [runs EXCEPT ![nextRun] = [NoRun EXCEPT !.pc = "fetch", !.by = by]]

\* the end of updateContent: the playlist is built from contentWithTorrents
\* and stored, lastUpdate is set; generatePlaylist, when it called the
\* run, returns this.playlistCache and the route sends it
endRun(u, with) ==
  /\ playlistCache' = { with }
  /\ lastUpdate' = { hours }
  /\ served' = IF runs[u].by = "playlist"
                 THEN served \cup { with[k] : k \in 1..Len(with) }
                 ELSE served

\* start(): the listen callback calls updateContent before any request
Startup ==
  /\ \A u \in Runs : runs[u].pc = "idle"
  /\ beginRun("startup")
  /\ UNCHANGED <<movieCache, playlistCache, lastUpdate, hours, served, lookup>>
  /\ UNCHANGED <<streamerVars, scanVars, call>>

\* the scheduled task, every 6 hours
CronFires ==
  /\ runs[1].pc # "idle"
  /\ hours < MaxCron * CronHours
  /\ hours' = hours + CronHours
  /\ beginRun("cron")
  /\ UNCHANGED <<movieCache, playlistCache, lastUpdate, served, lookup>>
  /\ UNCHANGED <<streamerVars, scanVars, call>>

\* POST /refresh
PostRefresh ==
  /\ runs[1].pc # "idle"
  /\ beginRun("refresh")
  /\ UNCHANGED <<movieCache, playlistCache, lastUpdate, hours, served, lookup>>
  /\ UNCHANGED <<streamerVars, scanVars, call>>

\* GET /playlist.m3u: generatePlaylist returns the cached playlist if it is
\* recent, and calls updateContent otherwise
GetPlaylist ==
  /\ runs[1].pc # "idle"
  /\ IF recent
       THEN /\ served' = served \cup UNION { { ids[k] : k \in 1..Len(ids) } : ids \in playlistCache }
            /\ UNCHANGED runs
       ELSE /\ beginRun("playlist")
            /\ UNCHANGED served
  /\ UNCHANGED <<movieCache, playlistCache, lastUpdate, hours, lookup>>
  /\ UNCHANGED <<streamerVars, scanVars, call>>

\* the catalogue pages arrive (a page that failed is an empty list); with
\* no item the loop is skipped and the run ends
TmdbReturns(u, content) ==
  /\ runs[u].pc = "fetch"
  /\ IF content = << >>
       THEN /\ runs' = [runs EXCEPT ![u].pc = "done"]
            /\ endRun(u, << >>)
       ELSE /\ runs' = [runs EXCEPT ![u].pc = "search", ![u].content = content, ![u].i = 1]
            /\ UNCHANGED <<playlistCache, lastUpdate, served>>
  /\ UNCHANGED <<movieCache, hours, lookup>>
  /\ UNCHANGED <<streamerVars, scanVars, call>>

\* findBestTorrent for item i settles: with a torrent the item is pushed
\* and cached; null and an exception leave both alone
SearchEnds(u, torrent) ==
  /\ runs[u].pc = "search"
  /\ LET id == runs[u].content[runs[u].i] IN
     IF torrent = FoundTorrent
       THEN /\ runs' = [runs EXCEPT ![u].pc = "delay", ![u].with = Append(@, id)]
            /\ movieCache' = cacheSet(movieCache, id, [id |-> id, torrent |-> torrent])
       ELSE /\ runs' = [runs EXCEPT ![u].pc = "delay"]
            /\ UNCHANGED movieCache
  /\ UNCHANGED <<playlistCache, lastUpdate, hours, served, lookup>>
  /\ UNCHANGED <<streamerVars, scanVars, call>>

\* the 1 s pause after item i ends: the next item, or the end of the run
DelayEnds(u) ==
  /\ runs[u].pc = "delay"
  /\ IF runs[u].i < Len(runs[u].content)
       THEN /\ runs' = [runs EXCEPT ![u].pc = "search", ![u].i = @ + 1]
            /\ UNCHANGED <<playlistCache, lastUpdate, served>>
       ELSE /\ runs' = [runs EXCEPT ![u].pc = "done"]
            /\ endRun(u, runs[u].with)
  /\ UNCHANGED <<movieCache, hours, lookup>>
  /\ UNCHANGED <<streamerVars, scanVars, call>>

\* GET /stream/:movieId up to the call of streamTorrent: 404 when
\* movieCache has no entry for the id or the entry has no torrent
GetStream(id) ==
  /\ runs[1].pc # "idle"
  /\ lookup' = [id |-> id,
                status |-> IF id \in DOMAIN movieCache /\ movieCache[id].torrent # NullTorrent
                             THEN 200 ELSE 404,
                listed |-> id \in served]
  /\ UNCHANGED <<movieCache, playlistCache, lastUpdate, runs, hours, served>>
  /\ UNCHANGED <<streamerVars, scanVars, call>>

\* the constructor: empty caches, nothing scheduled has run
InitServer ==
  /\ movieCache = << >>
  /\ playlistCache = {}
  /\ lastUpdate = {}
  /\ runs = [u \in Runs |-> NoRun]
  /\ hours = 0
  /\ served = {}
  /\ lookup = NoLookup

NextRefresh ==
  \/ Startup
  \/ CronFires
  \/ PostRefresh
  \/ GetPlaylist
  \/ \E u \in Runs, content \in Catalogues : TmdbReturns(u, content)
  \/ \E u \in Runs, torrent \in {FoundTorrent, NullTorrent, Thrown} : SearchEnds(u, torrent)
  \/ \E u \in Runs : DelayEnds(u)
  \/ \E id \in CatalogIds : GetStream(id)

(***************************************************************************)
(* Specifications.                                                         *)
(***************************************************************************)
InitStreamer ==
  /\ shutdown = "no"
  /\ activeTorrents = [k \in Keys |-> None]
  /\ streamingClients = << >>
  /\ torrents = [h \in Handles |-> NoTorrent]
  /\ req = [r \in Req |-> NoReq]
  /\ now = 0
  /\ instant = 0
  /\ lastAccess = 0

\* TorrentScanner's constructor: no search under way
InitScanner ==
  /\ scanPc = "idle"
  /\ slots = [i \in Adapters |-> PendingSlot]
  /\ arrival = << >>
  /\ found = << >>
  /\ result = NullTorrent

\* torrent-streamer.js constructor: this.client is unset until initWebTorrent ends
Init ==
  /\ InitStreamer
  /\ client = "uninit"
  /\ InitScanner
  /\ call = NoCall
  /\ InitServer
  /\ minSeedersEnv = {}

\* part_001 constructor: the engine is there, the interval timer is armed
InitLegacy ==
  /\ InitStreamer
  /\ client = "ok"
  /\ InitScanner
  /\ call = NoCall
  /\ InitServer
  /\ minSeedersEnv = {}

\* the process starts with MIN_SEEDERS_REQUIRED set or unset
InitScan ==
  /\ InitStreamer
  /\ client = "uninit"
  /\ InitScanner
  /\ call = NoCall
  /\ InitServer
  /\ minSeedersEnv \in EnvValues

Requests ==
  \/ \E r \in Req, m \in Magnets, opens \in BOOLEAN : StreamTorrent(r, m, opens)
  \/ \E h \in Handles, meta \in Metadata, opens \in BOOLEAN : TorrentReady(h, meta, opens)
  \/ \E h \in Handles : TorrentError(h)
  \/ \E h \in Handles : StartupTimeout(h)
  \/ \E r \in Req : StreamData(r)
  \/ \E r \in Req : StreamEnd(r)
  \/ \E r \in Req : StreamError(r)
  \/ \E r \in Req : ResClose(r)
  \/ Tick

Next == InitWebTorrent \/ Requests

NextLegacy == cleanupInactiveTorrents \/ Requests

NextScan ==
  \/ StartSearch
  \/ \E i \in Adapters, page \in Pages : SearchReturns(i, page)
  \/ \E i \in Adapters : SearchFails(i)
  \/ \E i \in Adapters : SearchTimeout(i)

\* the streaming layer of torrent-streamer.js
Spec == Init /\ [][Next]_vars

\* the streaming layer of part_001, with the reaper
SpecLegacy == InitLegacy /\ [][NextLegacy]_vars

NextShutdown == Destroy \/ DestroyDrained \/ DestroyDone \/ Next

\* the streaming layer of torrent-streamer.js with destroy()
SpecShutdown == Init /\ [][NextShutdown]_vars

NextRoute == (\E r \in Req : StreamNotFound(r)) \/ Next

\* the streaming layer of torrent-streamer.js behind GET /stream/:movieId
SpecRoute == Init /\ [][NextRoute]_vars

\* the content refresh of server.js
SpecRefresh == Init /\ [][NextRefresh]_vars

\* discovery
SpecScan == InitScan /\ [][NextScan]_vars

\* discovery, with the timers of setTimeout firing in the end
FairSpecScan == SpecScan /\ \A i \in Adapters : WF_vars(SearchTimeout(i))

(***************************************************************************)
(* isValidTorrent on its own: the process starts with MIN_SEEDERS_REQUIRED *)
(* unset or set to a number, and isValidTorrent is called on a candidate.  *)
(***************************************************************************)
\* parseInt(process.env.MIN_SEEDERS_REQUIRED): NaN, or the number configured
EnvConfigured == { {}, {0}, {3}, {5}, {8} }

\* candidates as far as isValidTorrent reads them; "" stands for an empty or
\* missing title or magnet link, size 0 for a size text that did not parse
Candidates ==
  [ seeders : {0, 2, 3, 4, 5, 7, 8, 9},
    magnetLink : {"", "magnet:?xt=urn:btih:ab12"},
    title : {"", "Movie.2019.1080p"},
    size : {0, GB} ]

InitValid ==
  /\ InitStreamer
  /\ client = "uninit"
  /\ InitScanner
  /\ call = NoCall
  /\ InitServer
  /\ minSeedersEnv \in EnvConfigured

IsValidTorrent(torrent) ==
  /\ call' = [fn |-> "isValidTorrent", torrent |-> torrent,
              ret |-> isValidTorrent(torrent, minSeedersEnv)]
  /\ UNCHANGED <<streamerVars, scanVars, serverVars>>

NextValid == \E torrent \in Candidates : IsValidTorrent(torrent)

SpecValid == InitValid /\ [][NextValid]_vars

(***************************************************************************)
(* setupStreamResponse on its own.  A Range header is a string, kept as    *)
(* the sequence of its characters, with the six characters of "bytes="     *)
(* kept as one.  A JavaScript number is a set: {} is NaN, {n} is n.        *)
(***************************************************************************)
Digits == << "0", "1", "2", "3", "4", "5", "6", "7", "8", "9" >>

isDigit(c) == \E i \in 1..Len(Digits) : Digits[i] = c

digitVal(c) == (CHOOSE i \in 1..Len(Digits) : Digits[i] = c) - 1

\* the decimal digits of n, as template literals and header values print it
RECURSIVE toDigits(_)
toDigits(n) ==
  IF n < Len(Digits) THEN << Digits[n + 1] >>
  ELSE toDigits(n \div Len(Digits)) \o << Digits[(n % Len(Digits)) + 1] >>

RECURSIVE valueOf(_, _)
valueOf(str, k) ==
  IF k = 0 THEN 0 ELSE valueOf(str, k - 1) * Len(Digits) + digitVal(str[k])

\* parseInt(str, 10) on a string without sign or blanks: the number its
\* leading digits spell, NaN when it starts with no digit
parseInt(str) ==
  LET k == Cardinality({ i \in 1..Len(str) : \A j \in 1..i : isDigit(str[j]) })
  IN IF k = 0 THEN {} ELSE { valueOf(str, k) }

\* range.replace(/bytes=/, ''): the first "bytes=" is taken out
replaceBytes(str) ==
  IF \E i \in 1..Len(str) : str[i] = "bytes="
    THEN LET i == CHOOSE x \in 1..Len(str) :
                    /\ str[x] = "bytes="
                    /\ \A y \in 1..(x - 1) : str[y] # "bytes="
         IN SubSeq(str, 1, i - 1) \o SubSeq(str, i + 1, Len(str))
    ELSE str

\* str.split('-')
split(str) ==
  LET seps   == { i \in 1..Len(str) : str[i] = "-" }
      sep(k) == IF k = 0 THEN 0
                ELSE IF k > Cardinality(seps) THEN Len(str) + 1
                ELSE CHOOSE i \in seps : Cardinality({ j \in seps : j < i }) = k - 1
  IN [k \in 1..(Cardinality(seps) + 1) |-> SubSeq(str, sep(k - 1) + 1, sep(k) - 1)]

\* a - b and a + 1 on JavaScript numbers
minus(a, b) == { x - y : x \in a, y \in b }

plusOne(a) == { x + 1 : x \in a }

rangeEndPastLast(parts, fileSize) ==
  IF Len(parts) >= 2 /\ parts[2] # << >> THEN parseInt(parts[2]) ELSE { fileSize }

\* parts[1] ? parseInt(parts[1], 10) : fileSize - 1
rangeEnd(parts, fileSize) ==
  IF Len(parts) >= 2 /\ parts[2] # << >> THEN parseInt(parts[2]) ELSE { fileSize - 1 }

wholeFilePastLast(fileSize) == << {0}, {fileSize} >>

\* this.streamFileRange(videoFile, res, 0, fileSize - 1, torrentId)
wholeFile(fileSize) == << {0}, {fileSize - 1} >>

\* no Range header (req.headers.range is undefined), no Content-Range header
NoHeader == << >>

(***************************************************************************)
(* setupStreamResponse(videoFile, res, torrentId): the status, the         *)
(* Content-Length and Content-Range headers the response carries when the  *)
(* function returns, and the range handed to streamFileRange.              *)
(***************************************************************************)
setupStreamResponse(range, fileSize) ==
  IF range # NoHeader
    THEN LET parts     == split(replaceBytes(range))
             start     == parseInt(parts[1])
             end       == rangeEnd(parts, fileSize)
             chunkSize == plusOne(minus(end, start))
         IN [status |-> 206,
             contentRange |-> << start, end, {fileSize} >>,
             contentLength |-> chunkSize,
             read |-> << start, end >>]
    ELSE [status |-> 200,
          contentRange |-> NoHeader,
          contentLength |-> {fileSize},
          read |-> wholeFile(fileSize)]

\* `bytes=<start>-<end?>` as a client writes it; end is {} when left out
rangeHeader(start, end) ==
  << "bytes=" >> \o toDigits(start) \o << "-" >>
    \o (IF end = {} THEN << >> ELSE toDigits(CHOOSE e \in end : TRUE))

\* positions a client may name, and lengths of the selected file
Positions == {0, 7, 999, 1000, 1999, 999999}

FileSizes == {8, 2000, 1000000}

\* the Range headers of requests: none, the well-formed ones, and some that
\* are not of the form bytes=<start>-<end?>
RangeHeaders ==
  { NoHeader }
    \cup { rangeHeader(a, {}) : a \in Positions }
    \cup { rangeHeader(a, {b}) : a \in Positions, b \in Positions }
    \cup { << "bytes=", "-", "5", "0", "0" >>, << "bytes=" >>, << "bytes=", "a", "-", "7" >>,
           << "7", "-", "9" >> }

InitRange ==
  /\ InitStreamer
  /\ client = "uninit"
  /\ InitScanner
  /\ minSeedersEnv = {}
  /\ call = NoCall
  /\ InitServer

SetupStreamResponse(range, fileSize) ==
  /\ call' = [fn |-> "setupStreamResponse", range |-> range, fileSize |-> fileSize,
              res |-> setupStreamResponse(range, fileSize)]
  /\ UNCHANGED <<streamerVars, scanVars, serverVars>>

NextRange == \E range \in RangeHeaders, fileSize \in FileSizes : SetupStreamResponse(range, fileSize)

SpecRange == InitRange /\ [][NextRange]_vars

(***************************************************************************)
(* calculateTorrentScore on its own, on candidates that need not be valid. *)
(***************************************************************************)
\* every marker calculateTorrentScore looks for in the lower-cased title
Markers ==
  {"2160p", "4k", "1080p", "720p", "480p", "x264", "h264", "x265", "h265",
   "5.1", "7.1", "atmos"} \cup goodGroups

\* a marker, character by character
spell(marker) ==
  CASE marker = "2160p" -> <<"2", "1", "6", "0", "p">>
    [] marker = "4k"    -> <<"4", "k">>
    [] marker = "1080p" -> <<"1", "0", "8", "0", "p">>
    [] marker = "720p"  -> <<"7", "2", "0", "p">>
    [] marker = "480p"  -> <<"4", "8", "0", "p">>
    [] marker = "x264"  -> <<"x", "2", "6", "4">>
    [] marker = "h264"  -> <<"h", "2", "6", "4">>
    [] marker = "x265"  -> <<"x", "2", "6", "5">>
    [] marker = "h265"  -> <<"h", "2", "6", "5">>
    [] marker = "5.1"   -> <<"5", ".", "1">>
    [] marker = "7.1"   -> <<"7", ".", "1">>
    [] marker = "atmos" -> <<"a", "t", "m", "o", "s">>
    [] marker = "yify"  -> <<"y", "i", "f", "y">>
    [] marker = "rarbg" -> <<"r", "a", "r", "b", "g">>
    [] marker = "fgt"   -> <<"f", "g", "t">>
    [] marker = "sparks" -> <<"s", "p", "a", "r", "k", "s">>
    [] marker = "cmrg"  -> <<"c", "m", "r", "g">>
    [] marker = "yts"   -> <<"y", "t", "s">>
    [] marker = "eztv"  -> <<"e", "z", "t", "v">>

UpperCase ==
  <<"A", "B", "C", "D", "E", "F", "G", "H", "I", "J", "K", "L", "M",
    "N", "O", "P", "Q", "R", "S", "T", "U", "V", "W", "X", "Y", "Z">>

LowerCase ==
  <<"a", "b", "c", "d", "e", "f", "g", "h", "i", "j", "k", "l", "m",
    "n", "o", "p", "q", "r", "s", "t", "u", "v", "w", "x", "y", "z">>

\* String.prototype.toLowerCase on one character
lowerCharKeepsCase(c) == c

lowerChar(c) ==
  IF \E k \in 1..26 : UpperCase[k] = c
    THEN LowerCase[CHOOSE k \in 1..26 : UpperCase[k] = c]
    ELSE c

\* title.toLowerCase(), the title given character by character
titleToLowerCase(title) == [k \in 1..Len(title) |-> lowerChar(title[k])]

\* String.prototype.includes
titleIncludes(title, part) ==
  \E k \in 0..(Len(title) - Len(part)) : SubSeq(title, k + 1, k + Len(part)) = part

\* the markers a title contains once lower-cased
marksOf(title) ==
  { marker \in Markers : titleIncludes(titleToLowerCase(title), spell(marker)) }

\* 'Movie 1080p YTS x265'
ScenarioTitle ==
  <<"M", "o", "v", "i", "e", " ", "1", "0", "8", "0", "p", " ",
    "Y", "T", "S", " ", "x", "2", "6", "5">>

\* 'Film.4K.X264.H265.Atmos.7.1-RARBG'
LoudTitle ==
  <<"F", "i", "l", "m", ".", "4", "K", ".", "X", "2", "6", "4", ".",
    "H", "2", "6", "5", ".", "A", "t", "m", "o", "s", ".", "7", ".", "1",
    "-", "R", "A", "R", "B", "G">>

\* 3e9 bytes, in blocks of 512 bytes
ScenarioSize == 5859375

\* sizes around every limit of the size term
ScoreSizes ==
  {0, (3 * GB) \div 10, GB \div 2 - 1, GB \div 2, GB - 1, GB, ScenarioSize,
   5 * GB, 10 * GB, 10 * GB + 1, 15 * GB, 20 * GB, 20 * GB + 1, 50 * GB,
   50 * GB + 1, 60 * GB}

\* seeder counts around the saturation of the seeders term
ScoreSeeders == {0, 1, 5, 39, 40, 41, 50, 100}

\* the markers of a title, in the combinations the codec and the audio
\* terms tell apart
ScoreMarks ==
  { {}, {"x264"}, {"h264"}, {"x265"}, {"h265"}, {"x264", "x265"}, {"h264", "h265"},
    {"5.1"}, {"7.1"}, {"atmos"}, {"5.1", "atmos"}, {"7.1", "atmos"},
    marksOf(ScenarioTitle), marksOf(LoudTitle) }

ScoreInputs ==
  [ marks : { {}, {"720p"}, {"2160p", "x265", "atmos"} },
    seeders : {1, 5, 40, 50},
    leechers : {0, 3, 200},
    size : {0, GB \div 4, GB, 15 * GB, 60 * GB},
    verified : BOOLEAN,
    uploadDate : {"none", "recent"} ]
  \cup
  [ marks : { {}, {"720p"} }, seeders : {0, 1, 50}, leechers : {0, 200},
    size : ScoreSizes, verified : {FALSE}, uploadDate : {"none"} ]
  \cup
  [ marks : ScoreMarks, seeders : {5, 50}, leechers : {0, 1, 2, 3, 4, 24, 200},
    size : {0, ScenarioSize}, verified : BOOLEAN, uploadDate : {"none"} ]
  \cup
  [ marks : { {} }, seeders : ScoreSeeders, leechers : {0, 3, 19, 20, 200},
    size : {0, GB}, verified : {FALSE}, uploadDate : {"none"} ]

InitScore ==
  /\ InitStreamer
  /\ client = "uninit"
  /\ InitScanner
  /\ minSeedersEnv = {}
  /\ call = NoCall
  /\ InitServer

CalculateTorrentScore(torrent) ==
  /\ call' = [fn |-> "calculateTorrentScore", torrent |-> torrent,
              ret |-> calculateTorrentScore(torrent)]
  /\ UNCHANGED <<streamerVars, scanVars, serverVars>>

NextScore == \E torrent \in ScoreInputs : CalculateTorrentScore(torrent)

SpecScore == InitScore /\ [][NextScore]_vars

(***************************************************************************)
(* buildSearchQuery on its own.  A title is given character by character;  *)
(* year is {} (null: the catalogue knows no date) or {y}.                  *)
(***************************************************************************)
\* words a title may be made of in one behaviour
MaxWords == 3

\* \w of a regular expression
isWordChar(c) ==
  \/ \E k \in 1..26 : UpperCase[k] = c \/ LowerCase[k] = c
  \/ isDigit(c)
  \/ c = "_"

\* \s of a regular expression
isSpace(c) == c \in {" ", "\t"}

\* the characters of str at the positions keep, in order
pick(str, keep) ==
  LET at == SelectSeq([i \in 1..Len(str) |-> i], LAMBDA i : i \in keep)
  IN [k \in 1..Len(at) |-> str[at[k]]]

\* .replace(/[^\w\s-]/g, '')
stripSymbols(str) ==
  pick(str, { i \in 1..Len(str) : isWordChar(str[i]) \/ isSpace(str[i]) \/ str[i] = "-" })

\* .replace(/\s+/g, ' ')
collapseSpaces(str) ==
  LET first == { i \in 1..Len(str) : ~isSpace(str[i]) \/ i = 1 \/ ~isSpace(str[i - 1]) }
      kept  == pick(str, first)
  IN [k \in 1..Len(kept) |-> IF isSpace(kept[k]) THEN " " ELSE kept[k]]

\* .trim()
trim(str) ==
  pick(str, { i \in 1..Len(str) :
                /\ \E j \in 1..i : ~isSpace(str[j])
                /\ \E j \in i..Len(str) : ~isSpace(str[j]) })

\* .split(' ')
splitWords(str) ==
  LET seps   == { i \in 1..Len(str) : str[i] = " " }
      sep(k) == IF k = 0 THEN 0
                ELSE IF k > Cardinality(seps) THEN Len(str) + 1
                ELSE CHOOSE i \in seps : Cardinality({ j \in seps : j < i }) = k - 1
  IN [k \in 1..(Cardinality(seps) + 1) |-> SubSeq(str, sep(k - 1) + 1, sep(k) - 1)]

\* .join(' ')
RECURSIVE joinWords(_)
joinWords(words) ==
  IF Len(words) = 0 THEN << >>
  ELSE IF Len(words) = 1 THEN words[1]
  ELSE words[1] \o << " " >> \o joinWords(Tail(words))

stopWords ==
  { <<"t", "h", "e">>, <<"a">>, <<"a", "n">>, <<"a", "n", "d">>, <<"o", "r">>,
    <<"b", "u", "t">>, <<"i", "n">>, <<"o", "n">>, <<"a", "t">>, <<"t", "o">>,
    <<"f", "o", "r">>, <<"o", "f">>, <<"w", "i", "t", "h">>, <<"b", "y">> }

\* the filter predicate reads cleanTitle before the assignment: the word
\* count is that of the cleaned title, stop words included
filterStopWords(words) ==
  SelectSeq(words, LAMBDA word :
    titleToLowerCase(word) \notin stopWords \/ Len(words) <= 3)

buildSearchQuery(title, year, type) ==
  LET cleaned    == trim(collapseSpaces(stripSymbols(title)))
      cleanTitle == joinWords(filterStopWords(splitWords(cleaned)))
  IN IF \E y \in year : y # 0
       THEN cleanTitle \o << " " >> \o toDigits(CHOOSE y \in year : TRUE)
       ELSE cleanTitle

\* the pieces titles are made of: 'The', 'of', 'Fly!'
Tokens == { <<"T", "h", "e">>, <<"o", "f">>, <<"F", "l", "y", "!">> }

\* titles of up to MaxWords pieces with one blank between them, and
\* '  The \t Fly ', 'Tom & of', 'The Fly & the Fly', 'A.I.',
\* 'The Fly of Fly', 'The Lord of the Rings', 'of of of of',
\* 'Lord Fly Tom Rings of'
QueryTitles ==
  { joinWords(pieces) : pieces \in UNION { [1..n -> Tokens] : n \in 0..MaxWords } }
  \cup
  { <<" ", " ", "T", "h", "e", " ", "\t", " ", "F", "l", "y", " ">>,
    <<"T", "o", "m", " ", "&", " ", "o", "f">>,
    <<"T", "h", "e", " ", "F", "l", "y", " ", "&", " ", "t", "h", "e", " ", "F", "l", "y">>,
    <<"A", ".", "I", ".">>,
    <<"T", "h", "e", " ", "F", "l", "y", " ", "o", "f", " ", "F", "l", "y">>,
    <<"T", "h", "e", " ", "L", "o", "r", "d", " ", "o", "f", " ", "t", "h", "e", " ",
      "R", "i", "n", "g", "s">>,
    <<"o", "f", " ", "o", "f", " ", "o", "f", " ", "o", "f">>,
    <<"L", "o", "r", "d", " ", "F", "l", "y", " ", "T", "o", "m", " ",
      "R", "i", "n", "g", "s", " ", "o", "f">> }

QueryYears == { {}, {1986} }

QueryTypes == {"movie", "tv"}

InitQuery ==
  /\ InitStreamer
  /\ client = "uninit"
  /\ InitScanner
  /\ minSeedersEnv = {}
  /\ call = NoCall
  /\ InitServer

BuildSearchQuery(title, year, type) ==
  /\ call' = [fn |-> "buildSearchQuery", title |-> title, year |-> year,
              type |-> type, ret |-> buildSearchQuery(title, year, type)]
  /\ UNCHANGED <<streamerVars, scanVars, serverVars>>

NextQuery ==
  \E title \in QueryTitles, year \in QueryYears, type \in QueryTypes :
    BuildSearchQuery(title, year, type)

SpecQuery == InitQuery /\ [][NextQuery]_vars

(***************************************************************************)
(* search(query) of the three adapters on its own.  A result page is the   *)
(* sequence of the table rows the selector finds; of a row the adapter     *)
(* reads                                                                   *)
(*   titleText  the text of the first link of the name cell                *)
(*   href       the href of the magnet link: {} when the row has none      *)
(*   seedText, leechText  the text of the seeders and leechers cells       *)
(*   size       what the size text amounts to, 0 when it has no match      *)
(*   cells      the number of td cells (LimeTorrents reads it)             *)
(*   vip        the row carries the VIP badge                              *)
(***************************************************************************)
\* table rows on one result page
MaxRows == 3

\* parseInt(text) without a radix: an optional sign, then digits
parseIntText(text) ==
  IF Len(text) > 0 /\ text[1] = "-"
    THEN { 0 - n : n \in parseInt(Tail(text)) }
    ELSE parseInt(text)

\* value || 0
orZero(value) == IF \E n \in value : n # 0 THEN CHOOSE n \in value : TRUE ELSE 0

Row(titleText, href, seedText, leechText, cells, vip) ==
  [titleText |-> titleText, href |-> href, seedText |-> seedText,
   leechText |-> leechText, size |-> GB, cells |-> cells, vip |-> vip]

\* a listing, a listing of few cells, and listings with a blank title, no
\* magnet link, and the seeders texts '0', '' and '-3'
Rows ==
  { Row(<<" ", "M", "o", "v", "i", "e", " ">>, {"magnet:?xt=urn:btih:ab12"},
        <<"7">>, <<"2">>, 6, TRUE),
    Row(<<"F", "i", "l", "m">>, {"magnet:?xt=urn:btih:cd34"},
        <<"1", "2">>, << >>, 4, FALSE),
    Row(<<" ", " ">>, {"magnet:?xt=urn:btih:ab12"}, <<"7">>, <<"2">>, 6, FALSE),
    Row(<<"M", "o", "v", "i", "e">>, {}, <<"7">>, <<"2">>, 6, FALSE),
    Row(<<"M", "o", "v", "i", "e">>, {"magnet:?xt=urn:btih:ab12"},
        <<"0">>, <<"2">>, 6, FALSE),
    Row(<<"M", "o", "v", "i", "e">>, {"magnet:?xt=urn:btih:ab12"},
        << >>, <<"2">>, 6, FALSE),
    Row(<<"M", "o", "v", "i", "e">>, {"magnet:?xt=urn:btih:ab12"},
        <<"-", "3">>, <<"2">>, 6, FALSE) }

\* the result pages, and a request or a parse that throws
Documents == UNION { [1..n -> Rows] : n \in 0..MaxRows }

NoDocument == << [thrown |-> TRUE] >>

\* the rows the adapter looks at: ThePirateBay and LimeTorrents skip the
\* first row, LimeTorrents skips rows of fewer than 5 cells
readRows(i, doc) ==
  LET at == SelectSeq([k \in 1..Len(doc) |-> k], LAMBDA k :
              /\ sources[i] \in {"ThePirateBay", "LimeTorrents"} => k # 1
              /\ sources[i] = "LimeTorrents" => doc[k].cells >= 5)
  IN [k \in 1..Len(at) |-> doc[at[k]]]

pushesAll(row) == TRUE

\* if (title && magnetLink && seeders > 0)
pushes(row) ==
  /\ trim(row.titleText) # << >>
  /\ row.href # {}
  /\ orZero(parseIntText(row.seedText)) > 0

\* the object pushed for a row; a missing magnet link is undefined
pushed(i, row) ==
  [title |-> trim(row.titleText),
   magnetLink |-> IF row.href = {} THEN "" ELSE CHOOSE m \in row.href : TRUE,
   seeders |-> orZero(parseIntText(row.seedText)),
   leechers |-> orZero(parseIntText(row.leechText)),
   size |-> row.size,
   source |-> sources[i],
   verified |-> IF sources[i] = "LimeTorrents" THEN FALSE ELSE row.vip]

\* search(query) of source i on the page doc; the catch returns []
search(i, doc) ==
  IF doc = NoDocument THEN << >>
  ELSE LET kept == SelectSeq(readRows(i, doc), pushes)
       IN [k \in 1..Len(kept) |-> pushed(i, kept[k])]

InitSearch ==
  /\ InitStreamer
  /\ client = "uninit"
  /\ InitScanner
  /\ minSeedersEnv = {}
  /\ call = NoCall
  /\ InitServer

Search(i, doc) ==
  /\ call' = [fn |-> "search", source |-> sources[i], doc |-> doc,
              ret |-> search(i, doc)]
  /\ UNCHANGED <<streamerVars, scanVars, serverVars>>

NextSearch ==
  \E i \in Adapters, doc \in Documents \cup {NoDocument} : Search(i, doc)

SpecSearch == InitSearch /\ [][NextSearch]_vars

(***************************************************************************)
(* getTorrentId on magnet links given character by character.  hash names  *)
(* the info hash the link carries (the content it identifies).             *)
(***************************************************************************)
\* characters of the info hash the regular expression asks for
HashLen == 40

\* [a-fA-F0-9]
isHex(c) ==
  \/ isDigit(c)
  \/ \E k \in 1..6 : UpperCase[k] = c \/ LowerCase[k] = c

\* 'xt=urn:btih:'
BtihPrefix == <<"x", "t", "=", "u", "r", "n", ":", "b", "t", "i", "h", ":">>

\* /xt=urn:btih:([a-fA-F0-9]{40})/ matches at position k of the link
matchesAt(magnetLink, k) ==
  /\ k + Len(BtihPrefix) + HashLen - 1 <= Len(magnetLink)
  /\ SubSeq(magnetLink, k, k + Len(BtihPrefix) - 1) = BtihPrefix
  /\ \A j \in 0..(HashLen - 1) : isHex(magnetLink[k + Len(BtihPrefix) + j])

\* magnetLink.substring(0, 40)
substring40(magnetLink) ==
  SubSeq(magnetLink, 1, IF Len(magnetLink) < HashLen THEN Len(magnetLink) ELSE HashLen)

\* match ? match[1].toLowerCase() : magnetLink.substring(0, 40)
linkTorrentId(magnetLink) ==
  LET hits == { k \in 1..Len(magnetLink) : matchesAt(magnetLink, k) }
  IN IF hits # {}
       THEN LET k == CHOOSE x \in hits : \A y \in hits : x <= y
            IN titleToLowerCase(SubSeq(magnetLink, k + Len(BtihPrefix),
                                       k + Len(BtihPrefix) + HashLen - 1))
       ELSE substring40(magnetLink)

MagnetLinks ==
  {
    \* 40 hex, lower case
    [hash |-> "A", magnetLink |->
      <<"m", "a", "g", "n", "e", "t", ":", "?", "x", "t", "=", "u", "r",
        "n", ":", "b", "t", "i", "h", ":", "a", "b", "1", "2", "c", "d",
        "3", "4", "e", "f", "5", "6", "a", "b", "1", "2", "c", "d", "3",
        "4", "e", "f", "5", "6", "a", "b", "1", "2", "c", "d", "3", "4",
        "e", "f", "5", "6", "a", "b", "1", "2", "&", "d", "n", "=", "M",
        "o", "v", "i", "e">>],
    \* the same hash in upper case, another parameter
    [hash |-> "A", magnetLink |->
      <<"m", "a", "g", "n", "e", "t", ":", "?", "x", "t", "=", "u", "r",
        "n", ":", "b", "t", "i", "h", ":", "A", "B", "1", "2", "C", "D",
        "3", "4", "E", "F", "5", "6", "A", "B", "1", "2", "C", "D", "3",
        "4", "E", "F", "5", "6", "A", "B", "1", "2", "C", "D", "3", "4",
        "E", "F", "5", "6", "A", "B", "1", "2", "&", "t", "r", "=", "u",
        "d", "p">>],
    \* the same hash after another parameter
    [hash |-> "A", magnetLink |->
      <<"m", "a", "g", "n", "e", "t", ":", "?", "d", "n", "=", "M", "o",
        "v", "i", "e", "&", "x", "t", "=", "u", "r", "n", ":", "b", "t",
        "i", "h", ":", "a", "b", "1", "2", "c", "d", "3", "4", "e", "f",
        "5", "6", "a", "b", "1", "2", "c", "d", "3", "4", "e", "f", "5",
        "6", "a", "b", "1", "2", "c", "d", "3", "4", "e", "f", "5", "6",
        "a", "b", "1", "2">>],
    \* another hash of 40 hex
    [hash |-> "B", magnetLink |->
      <<"m", "a", "g", "n", "e", "t", ":", "?", "x", "t", "=", "u", "r",
        "n", ":", "b", "t", "i", "h", ":", "a", "b", "1", "2", "c", "d",
        "3", "4", "e", "f", "5", "6", "a", "b", "1", "2", "c", "d", "3",
        "4", "e", "f", "5", "6", "a", "b", "1", "2", "c", "d", "3", "4",
        "e", "f", "5", "6", "a", "b", "1", "3", "&", "d", "n", "=", "M",
        "o", "v", "i", "e">>],
    \* a base32 hash of 32 characters
    [hash |-> "X", magnetLink |->
      <<"m", "a", "g", "n", "e", "t", ":", "?", "x", "t", "=", "u", "r",
        "n", ":", "b", "t", "i", "h", ":", "M", "F", "R", "G", "G", "Z",
        "D", "F", "M", "Z", "T", "W", "Q", "2", "L", "K", "N", "N", "W",
        "G", "2", "3", "T", "P", "O", "B", "Y", "X", "E", "4", "3", "U",
        "&", "d", "n", "=", "M", "o", "v", "i", "e">>],
    \* another base32 hash with the same first 20 characters
    [hash |-> "Y", magnetLink |->
      <<"m", "a", "g", "n", "e", "t", ":", "?", "x", "t", "=", "u", "r",
        "n", ":", "b", "t", "i", "h", ":", "M", "F", "R", "G", "G", "Z",
        "D", "F", "M", "Z", "T", "W", "Q", "2", "L", "K", "N", "N", "W",
        "G", "A", "A", "A", "A", "A", "A", "A", "A", "A", "A", "A", "A",
        "&", "d", "n", "=", "M", "o", "v", "i", "e">>],
    \* a third base32 hash
    [hash |-> "Z", magnetLink |->
      <<"m", "a", "g", "n", "e", "t", ":", "?", "x", "t", "=", "u", "r",
        "n", ":", "b", "t", "i", "h", ":", "O", "N", "X", "W", "2", "Z",
        "J", "A", "N", "V", "X", "X", "E", "Z", "J", "A", "O", "R", "U",
        "G", "S", "3", "T", "H", "E", "B", "U", "G", "K", "4", "T", "F",
        "&", "d", "n", "=", "M", "o", "v", "i", "e">>],
    \* the display name first, base32 hash
    [hash |-> "X", magnetLink |->
      <<"m", "a", "g", "n", "e", "t", ":", "?", "d", "n", "=", "T", "h",
        "e", ".", "M", "o", "v", "i", "e", ".", "2", "0", "1", "9", ".",
        "1", "0", "8", "0", "p", ".", "B", "l", "u", "R", "a", "y", ".",
        "x", "2", "6", "4", "&", "x", "t", "=", "u", "r", "n", ":", "b",
        "t", "i", "h", ":", "M", "F", "R", "G", "G", "Z", "D", "F", "M",
        "Z", "T", "W", "Q", "2", "L", "K", "N", "N", "W", "G", "2", "3",
        "T", "P", "O", "B", "Y", "X", "E", "4", "3", "U">>],
    \* the same display name, another base32 hash
    [hash |-> "Z", magnetLink |->
      <<"m", "a", "g", "n", "e", "t", ":", "?", "d", "n", "=", "T", "h",
        "e", ".", "M", "o", "v", "i", "e", ".", "2", "0", "1", "9", ".",
        "1", "0", "8", "0", "p", ".", "B", "l", "u", "R", "a", "y", ".",
        "x", "2", "6", "4", "&", "x", "t", "=", "u", "r", "n", ":", "b",
        "t", "i", "h", ":", "O", "N", "X", "W", "2", "Z", "J", "A", "N",
        "V", "X", "X", "E", "Z", "J", "A", "O", "R", "U", "G", "S", "3",
        "T", "H", "E", "B", "U", "G", "K", "4", "T", "F">>],
    \* the same display name, a hash of 40 hex
    [hash |-> "B", magnetLink |->
      <<"m", "a", "g", "n", "e", "t", ":", "?", "d", "n", "=", "T", "h",
        "e", ".", "M", "o", "v", "i", "e", ".", "2", "0", "1", "9", ".",
        "1", "0", "8", "0", "p", ".", "B", "l", "u", "R", "a", "y", ".",
        "x", "2", "6", "4", "&", "x", "t", "=", "u", "r", "n", ":", "b",
        "t", "i", "h", ":", "a", "b", "1", "2", "c", "d", "3", "4", "e",
        "f", "5", "6", "a", "b", "1", "2", "c", "d", "3", "4", "e", "f",
        "5", "6", "a", "b", "1", "2", "c", "d", "3", "4", "e", "f", "5",
        "6", "a", "b", "1", "3">>],
    \* 39 hex characters
    [hash |-> "S", magnetLink |->
      <<"m", "a", "g", "n", "e", "t", ":", "?", "x", "t", "=", "u", "r",
        "n", ":", "b", "t", "i", "h", ":", "a", "b", "1", "2", "c", "d",
        "3", "4", "e", "f", "5", "6", "a", "b", "1", "2", "c", "d", "3",
        "4", "e", "f", "5", "6", "a", "b", "1", "2", "c", "d", "3", "4",
        "e", "f", "5", "6", "a", "b", "1">>] }

InitTorrentId ==
  /\ InitStreamer
  /\ client = "uninit"
  /\ InitScanner
  /\ minSeedersEnv = {}
  /\ call = NoCall
  /\ InitServer

\* one call of getTorrentId; prior is the call before it, if any
GetTorrentId(m) ==
  /\ call' = [fn |-> "getTorrentId", magnetLink |-> m.magnetLink, hash |-> m.hash,
              ret |-> linkTorrentId(m.magnetLink),
              prior |-> IF call.fn = "getTorrentId"
                          THEN << [magnetLink |-> call.magnetLink, hash |-> call.hash,
                                   ret |-> call.ret] >>
                          ELSE << >>]
  /\ UNCHANGED <<streamerVars, scanVars, serverVars>>

NextTorrentId == \E m \in MagnetLinks : GetTorrentId(m)

SpecTorrentId == InitTorrentId /\ [][NextTorrentId]_vars

(***************************************************************************)
(* Claims about the streaming session layer.                               *)
(***************************************************************************)

\* C1: two streamTorrent calls in flight at once for the same session key,
\* with no session registered for it, share one torrent object: client.add
\* was invoked once for the key, so both wait on the same handle.
C1_ConcurrentAcquireSharesOneAdd ==
  \A r1, r2 \in Req :
    ( /\ req[r1].pc = "awaitAdd" /\ req[r2].pc = "awaitAdd"
      /\ torrents[req[r1].h].key = torrents[req[r2].h].key )
    => req[r1].h = req[r2].h

\* C2: a streamTorrent call whose session key is registered leaves the
\* registry as it is, issues no client.add (a handle is only ever created
\* for a key that is not registered) and serves from the registered handle.
C2_RegisteredKeyIsReused ==
  [][ \A r \in Req :
        (req[r].pc = "idle" /\ req'[r].pc # "idle") =>
          /\ activeTorrents' = activeTorrents
          /\ \A h \in allocated' \ allocated : activeTorrents[torrents'[h].key] = None
          /\ req'[r].pc = "streaming" => req'[r].h = activeTorrents[req'[r].streamId[1]]
    ]_vars

\* a request is being served from a session it did not create
C2_Witness == \E r \in Req : req[r].pc = "streaming" /\ ~req[r].added

\* C3: the idle reaper never destroys a session some open response is still
\* reading from.
C3_ReaperSparesOpenResponses ==
  \A r \in Req : req[r].pc = "streaming" => ~torrents[req[r].h].reaped

\* C4: a sweep removes every registered session that has no ticket and whose
\* last access is more than one hour before the sweep.
C4_SweepRemovesIdleSessions ==
  [][ now' # now =>
        \A k \in Keys :
          ( /\ activeTorrents[k] # None
            /\ k \notin activeStreams
            /\ now' - lastAccess > HourMs )
          => activeTorrents'[k] = None
    ]_vars

\* C5: no ticket outlives its response: every ticket in streamingClients
\* belongs to a response whose stream is open or whose close is still to come.
C5_NoTicketOutlivesItsResponse ==
  \A id \in DOMAIN streamingClients :
    \E r \in Req : req[r].streamId = id /\ req[r].pc \in {"streaming", "ended", "errored"}

(***************************************************************************)
(* Claims about discovery.                                                 *)
(***************************************************************************)

\* C6: when findBestTorrent has returned, it has not thrown, and its result
\* is the one it would have returned had every adapter that failed or timed
\* out returned an empty list: the best of the rows of the adapters that
\* answered, taken from one of them, and null when none answered.
C6_FailedAdaptersCountAsEmpty ==
  scanPc = "done" =>
    LET responsive == { i \in Adapters : slots[i].by = "search" }
        rows == flat([i \in Adapters |->
                        IF i \in responsive THEN slots[i].value ELSE << >>])
    IN /\ result # Thrown
       /\ result = bestTorrent(rows, minSeedersEnv)
       /\ result # NullTorrent =>
            \E i \in responsive : result.torrent.source = sources[i]
       /\ responsive = {} => result = NullTorrent

\* a search returned a candidate although one adapter failed and another
\* timed out
C6_Witness ==
  /\ scanPc = "done"
  /\ \E i, j \in Adapters : slots[i].by = "failure" /\ slots[j].by = "timeout"
  /\ result # NullTorrent

\* C7: a search under way always completes, whatever the adapters do, since
\* the timer of each adapter fires in the end; it is complete as soon as no
\* adapter is pending; and the timeout of one adapter settles that adapter
\* only, the others are left as they are.
C7_DiscoveryAlwaysCompletes ==
  /\ (scanPc = "searching") ~> (scanPc = "done")
  /\ [](scanPc = "searching" => \E i \in Adapters : slots[i].state = "pending")
  /\ [][ \A i \in Adapters :
           (slots[i].by # "timeout" /\ slots'[i].by = "timeout") =>
             \A j \in Adapters \ {i} : slots'[j] = slots[j] ]_vars

\* a search completed with one adapter timed out, after another had answered
C7_Witness ==
  /\ scanPc = "done"
  /\ \E i, j \in Adapters :
       /\ slots[i].by = "timeout" /\ slots[j].by = "search"
       /\ arrival[Len(arrival)] = i

\* C8: the merged list is the adapters' rows in the order of the adapter
\* list, and the result is the best of that list, whatever the order the
\* adapters settled in.
C8_ResultIndependentOfArrivalOrder ==
  scanPc = "done" =>
    LET inListOrder == flat([i \in Adapters |-> slots[i].value])
    IN /\ found = inListOrder
       /\ result = bestTorrent(inListOrder, minSeedersEnv)

\* the last adapter of the list answered first, the first one last, with
\* different rows, and a candidate was returned
C8_Witness ==
  /\ scanPc = "done"
  /\ arrival[1] = Len(sources) /\ arrival[Len(arrival)] = 1
  /\ slots[1].value # << >> /\ slots[Len(sources)].value # << >>
  /\ \A k \in 1..Len(slots[1].value) :
       k <= Len(slots[Len(sources)].value) =>
         slots[1].value[k].title # slots[Len(sources)].value[k].title
  /\ result # NullTorrent

\* C9: a returned candidate is a valid row of the merged list whose score no
\* valid row exceeds, and of the valid rows with that score it is the first
\* one in the merged list.
C9_BestIsMaxScoreFirstOnTies ==
  (scanPc = "done" /\ result # NullTorrent /\ result # Thrown) =>
    LET valid == { k \in 1..Len(found) : isValidTorrent(found[k], minSeedersEnv) }
        ge(s, t) == s.num * t.den >= t.num * s.den
        top == { k \in valid : \A j \in valid :
                   ge(calculateTorrentScore(found[k]), calculateTorrentScore(found[j])) }
    IN \E k \in top :
         /\ \A j \in top : k <= j
         /\ result.torrent = found[k]
         /\ result.score = calculateTorrentScore(found[k])

\* the merged list holds a valid row of a lower score before two valid rows,
\* of two adapters, that share the highest score
C9_Witness ==
  /\ scanPc = "done"
  /\ result # NullTorrent
  /\ \E a, b, c \in 1..Len(found) :
       /\ a < b /\ b < c
       /\ \A k \in {a, b, c} : isValidTorrent(found[k], minSeedersEnv)
       /\ calculateTorrentScore(found[b]) = calculateTorrentScore(found[c])
       /\ found[b].source # found[c].source
       /\ calculateTorrentScore(found[a]).num * calculateTorrentScore(found[b]).den
            < calculateTorrentScore(found[b]).num * calculateTorrentScore(found[a]).den
       /\ result.torrent = found[b]

\* C10: findBestTorrent returns null exactly when no row of the merged list
\* passes isValidTorrent, and a candidate it returns passes it.
C10_NullIffNoValidCandidate ==
  scanPc = "done" =>
    /\ result = NullTorrent <=>
         ~ \E k \in 1..Len(found) : isValidTorrent(found[k], minSeedersEnv)
    /\ (result # NullTorrent /\ result # Thrown) =>
         isValidTorrent(result.torrent, minSeedersEnv)

\* rows were found, the one of the highest score among them is not valid,
\* and a valid one was returned; or rows were found and none is valid
C10_Witness ==
  /\ scanPc = "done"
  /\ \E k \in 1..Len(found) : ~isValidTorrent(found[k], minSeedersEnv)
  /\ result # NullTorrent
  /\ \E k \in 1..Len(found) :
       /\ ~isValidTorrent(found[k], minSeedersEnv)
       /\ calculateTorrentScore(found[k]).num * result.score.den
            > result.score.num * calculateTorrentScore(found[k]).den

\* C11: isValidTorrent accepts a candidate exactly when its seeders reach the
\* configured threshold (5 when none is configured), its magnet link and its
\* title are not empty and its size is above 0, whatever the threshold
\* configured.
C11_ValidIffThresholdAndFields ==
  call.fn = "isValidTorrent" =>
    LET configured == IF minSeedersEnv = {} THEN 5
                      ELSE CHOOSE n \in minSeedersEnv : TRUE
    IN call.ret <=> /\ call.torrent.seeders >= configured
                    /\ call.torrent.magnetLink # ""
                    /\ call.torrent.title # ""
                    /\ call.torrent.size > 0

\* C12: for a Range header bytes=<start>-<end?> on a file of fileSize bytes
\* the response has status 206, Content-Range bytes start-end/fileSize and
\* Content-Length end - start + 1, with end = fileSize - 1 when it is left
\* out, and the bytes read are those of [start, end].
C12_RangeRequestGets206 ==
  call.fn = "setupStreamResponse" =>
    \A start \in Positions, given \in {{}} \cup { {b} : b \in Positions } :
      call.range = rangeHeader(start, given) =>
        LET end == IF given = {} THEN call.fileSize - 1 ELSE CHOOSE e \in given : TRUE
        IN /\ call.res.status = 206
           /\ call.res.contentRange = << {start}, {end}, {call.fileSize} >>
           /\ call.res.contentLength = { end - start + 1 }
           /\ call.res.read = << {start}, {end} >>

\* bytes=1000-1999 on 1,000,000 bytes was answered; so was a header without
\* an end
C12_Witness ==
  /\ call.fn = "setupStreamResponse"
  /\ call.fileSize = 1000000
  /\ call.range = rangeHeader(1000, {1999})
  /\ call.res.status = 206
  /\ call.res.contentLength = {1000}

\* C13: without a Range header the response has status 200, Content-Length
\* fileSize, no Content-Range header, and the bytes read are [0, fileSize-1].
C13_NoRangeServesWholeFile ==
  (call.fn = "setupStreamResponse" /\ call.range = NoHeader) =>
    /\ call.res.status = 200
    /\ call.res.contentLength = { call.fileSize }
    /\ call.res.contentRange = NoHeader
    /\ call.res.read = << {0}, {call.fileSize - 1} >>

\* a request without a Range header was answered
C13_Witness ==
  /\ call.fn = "setupStreamResponse"
  /\ call.range = NoHeader
  /\ call.res.status = 200

\* C14: when the startup timer fires on a torrent that is not ready and
\* whose promise is pending, the torrent is destroyed, the promise is
\* rejected, the waiting request is answered 500 and the registry is left
\* as it was; a torrent whose promise was rejected is never registered.
C14_StartupTimeoutTearsDown ==
  /\ [](\A h \in Handles : torrents[h].promise = "rejected" =>
           \A k \in Keys : activeTorrents[k] # h)
  /\ [][ \A h \in Handles :
           ( /\ torrents[h].promise = "pending"
             /\ torrents[h].timer = "armed" /\ torrents'[h].timer = "fired" ) =>
             /\ torrents'[h].destroyed
             /\ torrents'[h].promise = "rejected"
             /\ req'[torrents[h].owner] = Finished("failed", 500)
             /\ activeTorrents' = activeTorrents ]_vars

\* the timer fired on a torrent that never became ready
C14_Witness ==
  \E h \in Handles :
    /\ torrents[h].timer = "fired" /\ torrents[h].promise = "rejected"
    /\ ~torrents[h].errored /\ torrents[h].destroyed
    /\ \E r \in Req : req[r] = Finished("failed", 500)

\* C15: a torrent without a file of an allow-listed video extension is never
\* registered in activeTorrents.
C15_NoSessionWithoutPlayableFile ==
  \A k \in Keys :
    activeTorrents[k] # None => findVideoFile(torrents[activeTorrents[k]].files) # None

\* C16: a request never starts streaming from a torrent that has emitted an
\* error or has been destroyed.
C16_FailedSessionIsNotReused ==
  [][ \A r \in Req :
        (req[r].pc = "idle" /\ req'[r].pc = "streaming") =>
          /\ ~torrents[req'[r].h].errored
          /\ ~torrents[req'[r].h].destroyed ]_vars

\* C18: two responses that are streaming at the same time have different
\* ticket ids.
C18_TicketsAreNeverShared ==
  \A r1, r2 \in Req :
    (r1 # r2 /\ req[r1].pc = "streaming" /\ req[r2].pc = "streaming") =>
      req[r1].streamId # req[r2].streamId

\* C17: when destroy() completes, activeTorrents is empty, every torrent
\* client.add handed out is destroyed and streamingClients is empty.
C17_ShutdownDrainsEverything ==
  [][ (shutdown # "done" /\ shutdown' = "done") =>
        /\ \A k \in Keys : activeTorrents'[k] = None
        /\ \A h \in allocated' : torrents'[h].destroyed
        /\ streamingClients' = << >> ]_vars

\* C19: a read refreshes the session's last-access time: after a data chunk
\* of a response was forwarded, the time the reaper measures the idle age
\* of the response's torrent from is not earlier than the time of the read.
C19_ReadsRefreshLastAccessed ==
  [][ \A r \in Req :
        (req[r].pc = "streaming" /\ req'[r].sent > req[r].sent) =>
          \E a \in lastAccessed(torrents'[req[r].h]) : a >= now ]_vars

\* C20: the score calculateTorrentScore returns is never below 0.
C20_ScoreIsNeverNegative ==
  call.fn = "calculateTorrentScore" => (call.ret.num >= 0 /\ call.ret.den > 0)

\* a candidate whose terms add up to less than 0 (2 for one seeder, less
\* than 1 for its health, -20 for its size) was scored 0
C20_Witness ==
  /\ call.fn = "calculateTorrentScore"
  /\ call.torrent.seeders = 1 /\ call.torrent.leechers = 200
  /\ call.torrent.size = 0 /\ call.torrent.marks = {}
  /\ ~call.torrent.verified /\ call.torrent.uploadDate = "none"
  /\ call.ret.num = 0

\* C21: between candidates that differ only in seeders the score never
\* falls as seeders rise, and from 40 seeders on it is the same score,
\* whatever the number of leechers.
C21_MonotonicThenFlatInSeeders ==
  call.fn = "calculateTorrentScore" =>
    \A more \in ScoreSeeders :
      LET other == calculateTorrentScore([call.torrent EXCEPT !.seeders = more])
      IN /\ more >= call.torrent.seeders => other.num >= call.ret.num
         /\ (call.torrent.seeders >= 40 /\ more >= 40) => other.num = call.ret.num

\* C22: of two candidates that differ only in size, the one of 0.3 GB
\* scores strictly below the one of 5 GB, clamp included.
C22_TinyFileScoresBelowGoodSize ==
  (call.fn = "calculateTorrentScore" /\ call.torrent.size = (3 * GB) \div 10) =>
    call.ret.num < calculateTorrentScore([call.torrent EXCEPT !.size = 5 * GB]).num

\* a 0.3 GB candidate whose terms add up to less than 0 was scored 0, and
\* its 5 GB twin scores above 0
C22_Witness ==
  /\ call.fn = "calculateTorrentScore"
  /\ call.torrent.size = (3 * GB) \div 10
  /\ call.torrent.seeders = 0 /\ call.torrent.marks = {}
  /\ call.ret.num = 0

\* C23: the codec term is 8 for a title with an x265/h265 marker, else 5
\* for one with an x264/h264 marker, else 0; a title with both gets 8.
C23_CodecTermPrefersEfficient ==
  call.fn = "calculateTorrentScore" =>
    LET t     == call.torrent
        codec == IF "x265" \in t.marks \/ "h265" \in t.marks THEN 8
                 ELSE IF "x264" \in t.marks \/ "h264" \in t.marks THEN 5
                 ELSE 0
        whole == seedersTerm(t) + qualityTerm(t) + sizeTerm(t) + groupTerm(t)
                 + codec + audioTerm(t) + verifiedTerm(t) + recencyTerm(t)
    IN call.ret.num = Max(whole * call.ret.den + healthTerm(t), 0)

\* C24: the audio term is 8 for a title with the atmos marker, else 5 for
\* one with a 5.1/7.1 marker, else 0; a title with both gets 8.
C24_AudioTermPrefersImmersive ==
  call.fn = "calculateTorrentScore" =>
    LET t     == call.torrent
        audio == IF "atmos" \in t.marks THEN 8
                 ELSE IF "5.1" \in t.marks \/ "7.1" \in t.marks THEN 5
                 ELSE 0
        whole == seedersTerm(t) + qualityTerm(t) + sizeTerm(t) + groupTerm(t)
                 + codecTerm(t) + audio + verifiedTerm(t) + recencyTerm(t)
    IN call.ret.num = Max(whole * call.ret.den + healthTerm(t), 0)

\* C25: the candidate with 50 seeders, title 'Movie 1080p YTS x265', 3e9
\* bytes, verified, no upload date, is valid under the default threshold
\* and scores 143 + min(50 / (leechers + 1) * 10, 20), whatever its leechers.
C25_ScenarioScoresExactly ==
  (/\ call.fn = "calculateTorrentScore"
   /\ call.torrent.marks = marksOf(ScenarioTitle)
   /\ call.torrent.seeders = 50 /\ call.torrent.size = ScenarioSize
   /\ call.torrent.verified /\ call.torrent.uploadDate = "none") =>
    /\ isValidTorrent([title |-> "Movie 1080p YTS x265",
                        magnetLink |-> "magnet:?xt=urn:btih:ab12",
                        seeders |-> call.torrent.seeders,
                        size |-> call.torrent.size], minSeedersEnv)
    /\ call.ret.den = call.torrent.leechers + 1
    /\ call.ret.num = 143 * call.ret.den + Min(50 * 10, 20 * call.ret.den)

\* the scenario's candidate was scored with its health term below the cap
\* of 20: 143 + 500 / 201
C25_Witness ==
  /\ call.fn = "calculateTorrentScore"
  /\ call.torrent.marks = {"1080p", "yts", "x265"}
  /\ call.torrent.seeders = 50 /\ call.torrent.size = ScenarioSize
  /\ call.torrent.verified /\ call.torrent.uploadDate = "none"
  /\ call.torrent.leechers = 200
  /\ call.ret = [num |-> 143 * 201 + 500, den |-> 201]

\* C30: the size term is 15 from 1 GB to 10 GB (10 GB included), else 10
\* above 10 GB up to 20 GB, else -20 below 0.5 GB, else -15 above 50 GB,
\* else 0.
C30_SizeTermInListedOrder ==
  call.fn = "calculateTorrentScore" =>
    LET t     == call.torrent
        size  == IF t.size >= GB /\ t.size <= 10 * GB THEN 15
                 ELSE IF t.size > 10 * GB /\ t.size <= 20 * GB THEN 10
                 ELSE IF 2 * t.size < GB THEN -20
                 ELSE IF t.size > 50 * GB THEN -15
                 ELSE 0
        whole == seedersTerm(t) + qualityTerm(t) + size + groupTerm(t)
                 + codecTerm(t) + audioTerm(t) + verifiedTerm(t) + recencyTerm(t)
    IN call.ret.num = Max(whole * call.ret.den + healthTerm(t), 0)

\* a candidate of exactly 10 GB was scored with 15 for its size: 50
\* seeders, no leechers, no markers make 80 + 20 + 15
C30_Witness ==
  /\ call.fn = "calculateTorrentScore"
  /\ call.torrent.size = 10 * GB
  /\ call.torrent.seeders = 50 /\ call.torrent.leechers = 0
  /\ call.torrent.marks = {} /\ ~call.torrent.verified
  /\ call.torrent.uploadDate = "none"
  /\ call.ret = [num |-> 115, den |-> 1]

\* C26: buildSearchQuery takes the stop words out of the cleaned title
\* unless 3 words or fewer would remain after taking them out, and then it
\* keeps them; a known year is appended.
C26_StopWordsKeptWhenFewWordsRemain ==
  call.fn = "buildSearchQuery" =>
    LET words    == splitWords(trim(collapseSpaces(stripSymbols(call.title))))
        removed  == SelectSeq(words, LAMBDA word : titleToLowerCase(word) \notin stopWords)
        expected == joinWords(IF Len(removed) <= 3 THEN words ELSE removed)
    IN call.ret = IF call.year = {} THEN expected
                  ELSE expected \o << " " >> \o toDigits(CHOOSE y \in call.year : TRUE)

\* C27: every candidate an adapter's search returns has a title, a magnet
\* link and more than 0 seeders; a row lacking one of them is not returned.
C27_AdaptersDropIncompleteListings ==
  call.fn = "search" =>
    /\ \A k \in 1..Len(call.ret) :
         /\ call.ret[k].title # << >>
         /\ call.ret[k].magnetLink # ""
         /\ call.ret[k].seeders > 0
    /\ Len(call.ret) <= Len(call.doc)

\* a page of a listing without a magnet link, a complete listing and a
\* listing with the seeders text '0' was searched, and the complete
\* listing alone came back
C27_Witness ==
  /\ call.fn = "search" /\ call.source = "TorrentGalaxy"
  /\ call.doc # NoDocument /\ Len(call.doc) = 3
  /\ call.doc[1].href = {}
  /\ call.doc[3].seedText = <<"0">>
  /\ Len(call.ret) = 1
  /\ call.ret[1].title = <<"M", "o", "v", "i", "e">>
  /\ call.ret[1].seeders = 7

\* C28: once a torrent is ready and has a file with an allow-listed
\* extension, the largest such file (the first one of equal length) is the
\* selected one, every other file is deselected, and every response
\* streaming from that torrent reads that file.
C28_LargestMediaFileSelectedAndServed ==
  \A h \in allocated :
    LET files == torrents[h].files
        media == { i \in 1..Len(files) : files[i].ext \in videoExtensions }
    IN (torrents[h].ready /\ media # {}) =>
         \E v \in media :
           /\ \A j \in media : files[j].length <= files[v].length
           /\ \A j \in media : files[j].length = files[v].length => v <= j
           /\ files[v].sel = "selected"
           /\ \A j \in 1..Len(files) : j # v => files[j].sel = "deselected"
           /\ \A r \in Req : (req[r].pc = "streaming" /\ req[r].h = h) => req[r].file = v

\* two responses stream from one torrent of three files, the two largest
\* media files of equal length: both read the first of the two
C28_Witness ==
  \E h \in allocated :
    /\ torrents[h].ready /\ Len(torrents[h].files) = 3
    /\ torrents[h].files[2].length = torrents[h].files[3].length
    /\ \A r \in Req : req[r].pc = "streaming" /\ req[r].h = h /\ req[r].file = 2

\* C29: a stream request for a movie without a torrent is answered 404; a
\* request whose torrent does not start (startup timeout, no playable
\* file, engine error) is answered 500; a request still waiting for its
\* torrent has not been answered and its startup timer is still armed; and
\* a request answered 404 or 500 is never answered again.
C29_MissIs404FailureIs500 ==
  /\ [](\A r \in Req :
          /\ req[r].pc = "notfound" => req[r].status = 404
          /\ req[r].pc = "failed" => req[r].status = 500
          /\ req[r].pc = "awaitAdd" =>
                /\ req[r].status = 0
                /\ torrents[req[r].h].promise = "pending"
                /\ torrents[req[r].h].timer = "armed")
  /\ [][\A r \in Req :
          /\ req[r].pc \in {"notfound", "failed"} => req'[r] = req[r]
          /\ (req[r].pc = "awaitAdd" /\ req'[r].pc # "awaitAdd") =>
                \/ req'[r].pc = "failed" /\ req'[r].status = 500
                \/ req'[r].pc = "streaming" /\ req'[r].status = 200]_vars

\* one request was answered 404 for a movie without a torrent, the other
\* 500 after the startup timer of its torrent fired
C29_Witness ==
  /\ req[1].pc = "notfound" /\ req[1].status = 404
  /\ req[2].pc = "failed" /\ req[2].status = 500
  /\ \E h \in allocated : torrents[h].owner = 2 /\ torrents[h].timer = "fired"
                            /\ torrents[h].promise = "rejected"

\* C31: every 206 response of setupStreamResponse names a range inside the
\* file: numbers start and end with 0 <= start <= end <= fileSize - 1, and
\* Content-Length end - start + 1.
C31_Every206RangeIsWellFormed ==
  (call.fn = "setupStreamResponse" /\ call.res.status = 206) =>
    \E start \in 0..(call.fileSize - 1) :
      \E end \in call.res.contentRange[2] :
        /\ call.res.contentRange = << {start}, {end}, {call.fileSize} >>
        /\ start <= end /\ end <= call.fileSize - 1
        /\ call.res.contentLength = { end - start + 1 }

\* C32: the startup timer of a torrent stays armed until it fires; when it
\* fires on a torrent that is ready, nothing but the timer changes (the
\* torrent is not destroyed, no request and no registry entry is touched);
\* and a promise of addTorrent that is resolved or rejected stays so.
C32_StartupTimerHarmlessAfterReady ==
  [][ \A h \in Handles :
        /\ torrents[h].timer = "armed" => torrents'[h].timer \in {"armed", "fired"}
        /\ torrents[h].promise \in {"resolved", "rejected"} =>
              torrents'[h].promise = torrents[h].promise
        /\ ( /\ torrents[h].ready
             /\ torrents[h].timer = "armed" /\ torrents'[h].timer = "fired" ) =>
              /\ torrents' = [torrents EXCEPT ![h].timer = "fired"]
              /\ ~torrents'[h].destroyed
              /\ req' = req
              /\ activeTorrents' = activeTorrents
              /\ streamingClients' = streamingClients ]_vars

\* the timer has fired on a torrent that was ready: the torrent is intact
\* and registered, and a response is streaming from it
C32_Witness ==
  \E h \in allocated :
    /\ torrents[h].ready /\ torrents[h].timer = "fired"
    /\ torrents[h].promise = "resolved" /\ ~torrents[h].destroyed
    /\ activeTorrents[torrents[h].key] = h
    /\ \E r \in Req : req[r].pc = "streaming" /\ req[r].h = h

\* C33: two magnet links get the same session key from getTorrentId only
\* if they carry the same info hash, and two links that carry the same
\* info hash of 40 hex characters get the same key.
C33_SameKeyOnlyForSameContent ==
  (call.fn = "getTorrentId" /\ call.prior # << >>) =>
    LET first == call.prior[1] IN
    /\ call.ret = first.ret => call.hash = first.hash
    /\ (call.hash = first.hash /\ call.hash \in {"A", "B"}) => call.ret = first.ret

(***************************************************************************)
(* Claims about the content refresh of the server.                         *)
(***************************************************************************)

\* C34: at most one run of updateContent is under way at any time,
\* whatever called it: the startup load, the scheduled task, POST /refresh
\* or a playlist request on a cache that is not recent.
C34_AtMostOneRefreshRuns == Cardinality(running) <= 1

\* C35: every entry of movieCache has a torrent, every item of the cached
\* playlist has an entry in movieCache, a stream request for an id of a
\* playlist that was sent is never answered 404, and no step removes an
\* entry from movieCache.
C35_PlaylistItemsStayInMovieCache ==
  /\ [](/\ \A id \in DOMAIN movieCache : movieCache[id].torrent = FoundTorrent
        /\ \A ids \in playlistCache : \A k \in 1..Len(ids) : ids[k] \in DOMAIN movieCache
        /\ lookup.listed => lookup.status # 404)
  /\ [][(DOMAIN movieCache) \subseteq (DOMAIN movieCache')]_vars

\* a playlist listing movie 1 was sent, a later run found no torrent for
\* it and stored a playlist without it, and a stream request for movie 1
\* still found its entry
C35_Witness ==
  /\ lookup.id = 1 /\ lookup.listed /\ lookup.status = 200
  /\ playlistCache = { << >> }
  /\ \A u \in Runs : runs[u].pc = "done"
  /\ runs[2].content = << 1 >> /\ runs[2].with = << >>

(***************************************************************************)
(* C36: while the engine is missing or initWebTorrent has not ended, a     *)
(* stream request is answered with the fallback JSON body and nothing      *)
(* else changes: no engine add, no activeTorrents entry, no ticket in      *)
(* streamingClients.  Once initWebTorrent has set an engine, no request    *)
(* is answered by fallbackStream, also after the engine was destroyed.     *)
(***************************************************************************)
C36_FallbackUntilEngineIsSet ==
  [][\A r \in Req :
       (req[r].pc = "idle" /\ req'[r].pc # "idle") =>
          IF client \in {"uninit", "null"}
            THEN /\ req'[r] = Finished("fallback", 200)
                 /\ UNCHANGED <<torrents, activeTorrents, streamingClients>>
            ELSE req'[r].pc # "fallback"]_vars

\* C36: one request fell back before the import ended, the import then gave
\* an engine and the next request went on to the engine
C36_Witness ==
  /\ client = "ok"
  /\ req[1].pc = "fallback"
  /\ req[2].pc \notin {"idle", "fallback"}
  /\ allocated # {}

====
